---- MODULE Spec2Model ----
(***************************************************************************)
(* A model of the categorical encoders of humilityai/encoder.              *)
(*                                                                         *)
(* Strings are Go strings: finite sequences of bytes (0..255).  A uint64   *)
(* is kept at its full width as four 16-bit limbs, least significant       *)
(* first, so that the FNV-1a hash and the unsigned comparisons of the code *)
(* are computed exactly as the program computes them.                      *)
(***************************************************************************)
EXTENDS Integers, Sequences, FiniteSets, TLC

(***************************************************************************)
(* uint64 arithmetic on limbs                                              *)
(***************************************************************************)
Limb == 65536

\* uint64(n) for a Go int n with -Limb < n < Limb (two's complement wrap).
U64(n) ==
    IF n >= 0 THEN <<n % Limb, n \div Limb, 0, 0>>
    ELSE <<Limb + n, Limb - 1, Limb - 1, Limb - 1>>

\* a > b on uint64.
Gt64(a, b) ==
    \/ a[4] > b[4]
    \/ a[4] = b[4] /\ a[3] > b[3]
    \/ a[4] = b[4] /\ a[3] = b[3] /\ a[2] > b[2]
    \/ a[4] = b[4] /\ a[3] = b[3] /\ a[2] = b[2] /\ a[1] > b[1]

\* Whether the uint64 u is a valid index of a slice of length n (n < Limb).
IndexOK(u, n) == u[4] = 0 /\ u[3] = 0 /\ u[2] = 0 /\ u[1] < n

RECURSIVE XorBits(_, _, _)
\* Bitwise exclusive or of the n low bits of a and b.
XorBits(a, b, n) ==
    IF n = 0 THEN 0
    ELSE ((a + b) % 2) + 2 * XorBits(a \div 2, b \div 2, n - 1)

\* u XOR c for a byte c.
XorByte(u, c) ==
    <<(u[1] \div 256) * 256 + XorBits(u[1] % 256, c, 8), u[2], u[3], u[4]>>

\* u * 0x100000001b3 mod 2^64: the FNV-64 prime is 2^40 + 0x1b3, i.e. limbs
\* <<0x1b3, 0, 0x100, 0>>.
MulPrime(u) ==
    LET p0 == u[1] * 435
        p1 == u[2] * 435 + (p0 \div Limb)
        p2 == u[3] * 435 + u[1] * 256 + (p1 \div Limb)
        p3 == u[4] * 435 + u[2] * 256 + (p2 \div Limb)
    IN  <<p0 % Limb, p1 % Limb, p2 % Limb, p3 % Limb>>

\* The FNV-64 offset basis 0xcbf29ce484222325.
OffsetBasis == <<8997, 33826, 40164, 52210>>

RECURSIVE Write(_, _)
\* hasher.Write(bytes) of a 64-bit FNV-1a hasher in state h.
Write(h, s) ==
    IF s = <<>> THEN h
    ELSE Write(MulPrime(XorByte(h, Head(s))), Tail(s))

\* fnv.New64a(); hasher.Write([]byte(s)); hasher.Sum64()
Sum64(s) == Write(OffsetBasis, s)

(***************************************************************************)
(* Inputs                                                                  *)
(***************************************************************************)
\* ""
Empty == <<>>

\* "a"
StrA == <<97>>

\* "7mohtcOFVz" and "c1E51sSEyx": two strings with the same FNV-1a 64 sum.
CollA == <<55, 109, 111, 104, 116, 99, 79, 70, 86, 122>>

CollB == <<99, 49, 69, 53, 49, 115, 83, 69, 121, 120>>

\* The strings the goroutines pass to Encode and Contains.
Values == {Empty, StrA, CollA, CollB}

\* The strings encoded into an Ordinal that is exported: among them a string
\* with a quote, a comma and a line feed, one with a carriage return and a
\* line feed, a byte that is no UTF-8, and an accented letter before "<".
IOValues ==
    {Empty, StrA, CollA, CollB, <<34, 44, 10>>, <<13, 10>>, <<255>>,
     <<195, 169, 60>>}

\* The most strings encoded into an Ordinal that is exported.
MaxVocab == 2

\* Every string of the model: the inputs, and what an import makes of them.
AllValues == Values \cup IOValues \cup {<<10>>, <<239, 191, 189>>}

\* The strings passed in slices to EncodeSlice.
SliceValues == {StrA}

\* The largest code passed to Decode; -1 stands for the int -1 of a SliceInt.
MaxCode == 2

\* The longest slice passed to EncodeSlice and DecodeSlice.
MaxSliceLen == 2

Goroutines == {1, 2}

\* All sequences over S of length at most n.
SeqsUpTo(S, n) == UNION {[1..m -> S] : m \in 0..n}

\* The arguments of Decode: uint64 values, among them uint64(-1) = 2^64 - 1.
Codes64 == {U64(n) : n \in -1..MaxCode}

\* The elements of the SliceInt arguments of DecodeSlice.
IntSlices == SeqsUpTo(-1..0, MaxSliceLen)

StrSlices == SeqsUpTo(SliceValues, MaxSliceLen)

(***************************************************************************)
(* Ordinal: the store                                                      *)
(***************************************************************************)
VARIABLES
    encoder,    \* Ordinal.encoder: map from hashed key to code
    decoder,    \* Ordinal.decoder: the strings, position = code
    rw,         \* the embedded sync.RWMutex
    g,          \* per goroutine: the call in progress and its locals
    crashed,    \* an unrecovered panic ended the program
    encoded,    \* history: the (string, code) pairs Encode has returned
    io,         \* an export of one Ordinal and its import into a fresh one
    oh,         \* a OneHot, how it was made, and its last call with the result
    fit,        \* a batch-fitted encoder and its last call with the result
    rt          \* a JSON export of one encoder and its import into a fresh one

ordinalVars == <<encoder, decoder, rw, g, crashed, encoded>>

\* The variables the calls on the shared Ordinal leave alone.
nonOrdinal == <<io, oh, fit, rt>>

\* The variables an export and import leave alone.
nonIO == <<encoder, decoder, rw, g, crashed, encoded, oh, fit, rt>>

\* The variables the calls on the OneHot leave alone.
nonOneHot == <<encoder, decoder, rw, g, crashed, encoded, io, fit, rt>>

\* The variables the batch-fitted encoders leave alone.
nonFit == <<encoder, decoder, rw, g, crashed, encoded, io, oh, rt>>

\* The variables a JSON export and import leave alone.
nonRoundTrip == <<encoder, decoder, rw, g, crashed, encoded, io, oh, fit>>

\* The FNV-1a sums of the strings of the model, computed once.
Sums == [s \in AllValues |-> Sum64(s)]

\* hashedKey of a string: hash/fnv New64a, Write, Sum64.
HashedKey(s) == IF s \in DOMAIN Sums THEN Sums[s] ELSE Sum64(s)

\* v, ok := m[key]
Lookup(m, key) ==
    IF key \in DOMAIN m THEN [ok |-> TRUE, v |-> m[key]]
    ELSE [ok |-> FALSE, v |-> 0]

\* m[key] = v
MapSet(m, key, v) ==
    [k \in (DOMAIN m) \cup {key} |-> IF k = key THEN v ELSE m[k]]

\* make(map[uint64]uint64)
EmptyMap == [k \in {} |-> 0]

\* The body of Encode between Lock and Unlock, as one function of the store.
EncodeStore(enc, dec, s) ==
    LET key == HashedKey(s)
        hit == Lookup(enc, key)
    IN  IF ~hit.ok
        THEN [encoder |-> MapSet(enc, key, Len(dec)),
              decoder |-> Append(dec, s),
              code |-> Len(dec)]
        ELSE [encoder |-> enc, decoder |-> dec, code |-> hit.v]

\* NewOrdinal(init): the store after construction.
NewOrdinal(init) ==
    IF init THEN EncodeStore(EmptyMap, <<>>, Empty)
    ELSE [encoder |-> EmptyMap, decoder |-> <<>>, code |-> 0]

\* The body of Decode on the uint64 i: the bounds test compares i with
\* uint64(len(e.decoder)-1), and i < 0 is never true of a uint64; an index
\* outside the slice panics.
DecodeBody(dec, i) ==
    IF Gt64(i, U64(Len(dec) - 1))
    THEN [panic |-> FALSE, v |-> Empty]
    ELSE IF IndexOK(i, Len(dec))
         THEN [panic |-> FALSE, v |-> dec[i[1] + 1]]
         ELSE [panic |-> TRUE, v |-> Empty]

\* The body of Contains.
ContainsBody(enc, s) == Lookup(enc, HashedKey(s)).ok

(***************************************************************************)
(* sync.RWMutex: Lock first takes the writers' mutex and announces the     *)
(* writer, which blocks every later RLock, and then waits for the active   *)
(* readers to leave.  The lock is not re-entrant.                          *)
(***************************************************************************)
NoWriter == 0

RWInit == [writer |-> NoWriter, held |-> FALSE, readers |-> 0]

CanAnnounce(m) == m.writer = NoWriter

Announce(m, p) == [m EXCEPT !.writer = p]

CanAcquire(m, p) == m.writer = p /\ ~m.held /\ m.readers = 0

Acquire(m) == [m EXCEPT !.held = TRUE]

Unlock(m) == [m EXCEPT !.writer = NoWriter, !.held = FALSE]

CanRLock(m) == m.writer = NoWriter

RLockIt(m) == [m EXCEPT !.readers = @ + 1]

RUnlock(m) == [m EXCEPT !.readers = @ - 1]

(***************************************************************************)
(* Ordinal: the calls, one goroutine p at a time.  A goroutine record      *)
(* holds the function being executed (fn), the function that called it     *)
(* (outer), the position in it (pc), its argument and locals, and the      *)
(* value it is about to return (val, out), read at position "ret".         *)
(***************************************************************************)
vars == <<encoder, decoder, rw, g, crashed, encoded, io, oh, fit, rt>>

Idle ==
    [pc |-> "idle", fn |-> "none", outer |-> "none", arg |-> <<>>, xs |-> <<>>,
     k |-> 0, out |-> <<>>, val |-> 0, before |-> 0, fresh |-> FALSE]

\* The record of a call of f just entered, about to take the lock at `at`.
Entered(f, at, a, xs) ==
    [Idle EXCEPT !.fn = f, !.pc = at, !.arg = a, !.xs = xs, !.k = 1]

\* Back in the loop of the slice function f with the element's result v.
Resumed(r, f, v) ==
    [r EXCEPT !.fn = f, !.outer = "none", !.pc = "body", !.arg = <<>>,
              !.val = 0, !.before = 0, !.fresh = FALSE,
              !.out = Append(@, v), !.k = @ + 1]

InCall(p) == g[p].pc \notin {"idle", "panic"}

\* Goroutine p is about to return from f: g[p].val is the value returned.
Returning(p, f) == g[p].fn = f /\ g[p].pc = "ret"

OrdinalInit ==
    /\ \E init \in BOOLEAN :
          /\ encoder = NewOrdinal(init).encoder
          /\ decoder = NewOrdinal(init).decoder
          /\ encoded = IF init THEN {<<Empty, NewOrdinal(init).code>>} ELSE {}
    /\ rw = RWInit
    /\ g = [p \in Goroutines |-> Idle]
    /\ crashed = FALSE

CallEncode(p, s) ==
    /\ ~crashed
    /\ g[p].pc = "idle"
    /\ g' = [g EXCEPT ![p] = Entered("Encode", "lock", s, <<>>)]
    /\ UNCHANGED <<nonOrdinal, encoder, decoder, rw, crashed, encoded>>

CallDecode(p, i) ==
    /\ ~crashed
    /\ g[p].pc = "idle"
    /\ g' = [g EXCEPT ![p] = Entered("Decode", "rlock", i, <<>>)]
    /\ UNCHANGED <<nonOrdinal, encoder, decoder, rw, crashed, encoded>>

CallDecodeSlice(p, xs) ==
    /\ ~crashed
    /\ g[p].pc = "idle"
    /\ g' = [g EXCEPT ![p] = Entered("DecodeSlice", "rlock", <<>>, xs)]
    /\ UNCHANGED <<nonOrdinal, encoder, decoder, rw, crashed, encoded>>

CallEncodeSlice(p, xs) ==
    /\ ~crashed
    /\ g[p].pc = "idle"
    /\ g' = [g EXCEPT ![p] = Entered("EncodeSlice", "lock", <<>>, xs)]
    /\ UNCHANGED <<nonOrdinal, encoder, decoder, rw, crashed, encoded>>

CallContains(p, s) ==
    /\ ~crashed
    /\ g[p].pc = "idle"
    /\ g' = [g EXCEPT ![p] = Entered("Contains", "rlock", s, <<>>)]
    /\ UNCHANGED <<nonOrdinal, encoder, decoder, rw, crashed, encoded>>

CallLength(p) ==
    /\ ~crashed
    /\ g[p].pc = "idle"
    /\ g' = [g EXCEPT ![p] = Entered("Length", "rlock", <<>>, <<>>)]
    /\ UNCHANGED <<nonOrdinal, encoder, decoder, rw, crashed, encoded>>

CallList(p) ==
    /\ ~crashed
    /\ g[p].pc = "idle"
    /\ g' = [g EXCEPT ![p] = Entered("List", "rlock", <<>>, <<>>)]
    /\ UNCHANGED <<nonOrdinal, encoder, decoder, rw, crashed, encoded>>

\* e.Lock(), first half: take the writers' mutex and announce the writer.
Lock(p) ==
    /\ ~crashed
    /\ g[p].pc = "lock"
    /\ CanAnnounce(rw)
    /\ rw' = Announce(rw, p)
    /\ g' = [g EXCEPT ![p].pc = "lock_wait"]
    /\ UNCHANGED <<nonOrdinal, encoder, decoder, crashed, encoded>>

\* e.Lock(), second half: the active readers have left.
LockAcquire(p) ==
    /\ ~crashed
    /\ g[p].pc = "lock_wait"
    /\ CanAcquire(rw, p)
    /\ rw' = Acquire(rw)
    /\ g' = [g EXCEPT ![p].pc = "body"]
    /\ UNCHANGED <<nonOrdinal, encoder, decoder, crashed, encoded>>

\* e.RLock()
RLock(p) ==
    /\ ~crashed
    /\ g[p].pc = "rlock"
    /\ CanRLock(rw)
    /\ rw' = RLockIt(rw)
    /\ g' = [g EXCEPT ![p].pc = "body"]
    /\ UNCHANGED <<nonOrdinal, encoder, decoder, crashed, encoded>>

\* Encode: v, ok := e.encoder[hashedKey].  before and fresh record the
\* length of the vocabulary and whether the string is new at this point.
EncodeLookup(p) ==
    /\ ~crashed
    /\ g[p].fn = "Encode" /\ g[p].pc = "body"
    /\ LET hit == Lookup(encoder, HashedKey(g[p].arg))
       IN  g' = [g EXCEPT ![p].pc = IF hit.ok THEN "ret" ELSE "append",
                          ![p].val = hit.v,
                          ![p].before = Len(decoder),
                          ![p].fresh = \A c \in encoded : c[1] # g[p].arg]
    /\ UNCHANGED <<nonOrdinal, encoder, decoder, rw, crashed, encoded>>

\* EncodeAppend with the new string put in front of the list instead of
\* behind it.
EncodeAppendFront(p) ==
    /\ ~crashed
    /\ g[p].fn = "Encode" /\ g[p].pc = "append"
    /\ decoder' = <<g[p].arg>> \o decoder
    /\ g' = [g EXCEPT ![p].pc = "assign", ![p].val = Len(decoder)]
    /\ UNCHANGED <<nonOrdinal, encoder, rw, crashed, encoded>>

\* Encode: code := uint64(len(e.decoder)); e.decoder = append(e.decoder, s)
EncodeAppend(p) ==
    /\ ~crashed
    /\ g[p].fn = "Encode" /\ g[p].pc = "append"
    /\ decoder' = Append(decoder, g[p].arg)
    /\ g' = [g EXCEPT ![p].pc = "assign", ![p].val = Len(decoder)]
    /\ UNCHANGED <<nonOrdinal, encoder, rw, crashed, encoded>>

\* Encode: e.encoder[hashedKey] = code
EncodeAssign(p) ==
    /\ ~crashed
    /\ g[p].fn = "Encode" /\ g[p].pc = "assign"
    /\ encoder' = MapSet(encoder, HashedKey(g[p].arg), g[p].val)
    /\ g' = [g EXCEPT ![p].pc = "ret"]
    /\ UNCHANGED <<nonOrdinal, decoder, rw, crashed, encoded>>

\* Encode: the deferred Unlock and the return, to EncodeSlice's loop or to
\* the caller.
EncodeReturn(p) ==
    /\ ~crashed
    /\ Returning(p, "Encode")
    /\ rw' = Unlock(rw)
    /\ encoded' = encoded \cup {<<g[p].arg, g[p].val>>}
    /\ g' = [g EXCEPT ![p] = IF g[p].outer = "EncodeSlice"
                             THEN Resumed(g[p], "EncodeSlice", g[p].val)
                             ELSE Idle]
    /\ UNCHANGED <<nonOrdinal, encoder, decoder, crashed>>

\* EncodeSlice under its Lock: the loop head.  Each element is a call of
\* Encode, which starts by taking the lock; after the last one codes is
\* returned.
EncodeSliceLoop(p) ==
    /\ ~crashed
    /\ g[p].fn = "EncodeSlice" /\ g[p].pc = "body"
    /\ g' = [g EXCEPT ![p] =
                IF g[p].k > Len(g[p].xs)
                THEN [@ EXCEPT !.pc = "ret", !.val = g[p].out]
                ELSE [@ EXCEPT !.fn = "Encode", !.outer = "EncodeSlice",
                               !.arg = g[p].xs[g[p].k], !.pc = "lock"]]
    /\ UNCHANGED <<nonOrdinal, encoder, decoder, rw, crashed, encoded>>

\* EncodeSlice: the deferred Unlock and the return.
EncodeSliceReturn(p) ==
    /\ ~crashed
    /\ Returning(p, "EncodeSlice")
    /\ rw' = Unlock(rw)
    /\ g' = [g EXCEPT ![p] = Idle]
    /\ UNCHANGED <<nonOrdinal, encoder, decoder, crashed, encoded>>

\* Decode: the bounds test and the index expression.
DecodeLookup(p) ==
    /\ ~crashed
    /\ g[p].fn = "Decode" /\ g[p].pc = "body"
    /\ LET r == DecodeBody(decoder, g[p].arg)
       IN  IF r.panic
           THEN /\ crashed' = TRUE
                /\ g' = [g EXCEPT ![p].pc = "panic"]
           ELSE /\ crashed' = crashed
                /\ g' = [g EXCEPT ![p].pc = "ret", ![p].val = r.v]
    /\ UNCHANGED <<nonOrdinal, encoder, decoder, rw, encoded>>

\* Decode: the deferred RUnlock and the return, to DecodeSlice's loop or to
\* the caller.
DecodeReturn(p) ==
    /\ ~crashed
    /\ Returning(p, "Decode")
    /\ rw' = RUnlock(rw)
    /\ g' = [g EXCEPT ![p] = IF g[p].outer = "DecodeSlice"
                             THEN Resumed(g[p], "DecodeSlice", g[p].val)
                             ELSE Idle]
    /\ UNCHANGED <<nonOrdinal, encoder, decoder, crashed, encoded>>

\* DecodeSlice under its RLock: the loop head.  Each element is a call of
\* Decode(uint64(v)), which starts by taking the read lock; after the last
\* one values is returned.
DecodeSliceLoop(p) ==
    /\ ~crashed
    /\ g[p].fn = "DecodeSlice" /\ g[p].pc = "body"
    /\ g' = [g EXCEPT ![p] =
                IF g[p].k > Len(g[p].xs)
                THEN [@ EXCEPT !.pc = "ret", !.val = g[p].out]
                ELSE [@ EXCEPT !.fn = "Decode", !.outer = "DecodeSlice",
                               !.arg = U64(g[p].xs[g[p].k]), !.pc = "rlock"]]
    /\ UNCHANGED <<nonOrdinal, encoder, decoder, rw, crashed, encoded>>

\* DecodeSlice: the deferred RUnlock and the return.
DecodeSliceReturn(p) ==
    /\ ~crashed
    /\ Returning(p, "DecodeSlice")
    /\ rw' = RUnlock(rw)
    /\ g' = [g EXCEPT ![p] = Idle]
    /\ UNCHANGED <<nonOrdinal, encoder, decoder, crashed, encoded>>

\* Contains: _, ok := e.encoder[hashedKey]
ContainsLookup(p) ==
    /\ ~crashed
    /\ g[p].fn = "Contains" /\ g[p].pc = "body"
    /\ g' = [g EXCEPT ![p].pc = "ret",
                      ![p].val = ContainsBody(encoder, g[p].arg)]
    /\ UNCHANGED <<nonOrdinal, encoder, decoder, rw, crashed, encoded>>

\* Length: len(e.decoder)
LengthRead(p) ==
    /\ ~crashed
    /\ g[p].fn = "Length" /\ g[p].pc = "body"
    /\ g' = [g EXCEPT ![p].pc = "ret", ![p].val = Len(decoder)]
    /\ UNCHANGED <<nonOrdinal, encoder, decoder, rw, crashed, encoded>>

\* List: e.decoder
ListRead(p) ==
    /\ ~crashed
    /\ g[p].fn = "List" /\ g[p].pc = "body"
    /\ g' = [g EXCEPT ![p].pc = "ret", ![p].val = decoder]
    /\ UNCHANGED <<nonOrdinal, encoder, decoder, rw, crashed, encoded>>

\* Contains, Length, List: the deferred RUnlock and the return.
ReadReturn(p) ==
    /\ ~crashed
    /\ g[p].fn \in {"Contains", "Length", "List"} /\ g[p].pc = "ret"
    /\ rw' = RUnlock(rw)
    /\ g' = [g EXCEPT ![p] = Idle]
    /\ UNCHANGED <<nonOrdinal, encoder, decoder, crashed, encoded>>

\* One step of goroutine p.  A panic ends the program.
Step(p) ==
    \/ \E s \in Values : CallEncode(p, s)
    \/ \E i \in Codes64 : CallDecode(p, i)
    \/ \E xs \in IntSlices : CallDecodeSlice(p, xs)
    \/ \E xs \in StrSlices : CallEncodeSlice(p, xs)
    \/ \E s \in Values : CallContains(p, s)
    \/ CallLength(p)
    \/ CallList(p)
    \/ Lock(p)
    \/ LockAcquire(p)
    \/ RLock(p)
    \/ EncodeLookup(p)
    \/ EncodeAppend(p)
    \/ EncodeAssign(p)
    \/ EncodeReturn(p)
    \/ EncodeSliceLoop(p)
    \/ EncodeSliceReturn(p)
    \/ DecodeLookup(p)
    \/ DecodeReturn(p)
    \/ DecodeSliceLoop(p)
    \/ DecodeSliceReturn(p)
    \/ ContainsLookup(p)
    \/ LengthRead(p)
    \/ ListRead(p)
    \/ ReadReturn(p)

Next == \E p \in Goroutines : Step(p)

(***************************************************************************)
(* Ordinal: ContainsCode                                                   *)
(***************************************************************************)
\* The int arguments of ContainsCode.
IntCodes == (0 - 1)..(MaxCode + 1)

\* The body of ContainsCode: false when len(e.decoder) >= code, else true.
ContainsCodeBody(dec, code) ==
    IF Len(dec) >= code THEN FALSE ELSE TRUE

CallContainsCode(p, code) ==
    /\ ~crashed
    /\ g[p].pc = "idle"
    /\ g' = [g EXCEPT ![p] = Entered("ContainsCode", "rlock", code, <<>>)]
    /\ UNCHANGED <<nonOrdinal, encoder, decoder, rw, crashed, encoded>>

\* ContainsCode: the test on len(e.decoder); before records that length.
ContainsCodeRead(p) ==
    /\ ~crashed
    /\ g[p].fn = "ContainsCode" /\ g[p].pc = "body"
    /\ g' = [g EXCEPT ![p].pc = "ret",
                      ![p].before = Len(decoder),
                      ![p].val = ContainsCodeBody(decoder, g[p].arg)]
    /\ UNCHANGED <<nonOrdinal, encoder, decoder, rw, crashed, encoded>>

\* ContainsCode: the deferred RUnlock and the return.
ContainsCodeReturn(p) ==
    /\ ~crashed
    /\ Returning(p, "ContainsCode")
    /\ rw' = RUnlock(rw)
    /\ g' = [g EXCEPT ![p] = Idle]
    /\ UNCHANGED <<nonOrdinal, encoder, decoder, crashed, encoded>>

\* The strings passed to Encode and Contains on an Ordinal that is also
\* imported into.
SharedValues == {Empty, StrA}

\* One step of a call of Encode, Decode, Contains, Length or List by
\* goroutine p.
StepShared(p) ==
    \/ \E s \in SharedValues : CallEncode(p, s)
    \/ \E i \in Codes64 : CallDecode(p, i)
    \/ \E s \in SharedValues : CallContains(p, s)
    \/ CallLength(p)
    \/ CallList(p)
    \/ Lock(p)
    \/ LockAcquire(p)
    \/ RLock(p)
    \/ EncodeLookup(p)
    \/ EncodeAppend(p)
    \/ EncodeAssign(p)
    \/ EncodeReturn(p)
    \/ DecodeLookup(p)
    \/ DecodeReturn(p)
    \/ ContainsLookup(p)
    \/ LengthRead(p)
    \/ ListRead(p)
    \/ ReadReturn(p)

\* One step of a call of ContainsCode by goroutine p.
StepContainsCode(p) ==
    \/ \E code \in IntCodes : CallContainsCode(p, code)
    \/ ContainsCodeRead(p)
    \/ ContainsCodeReturn(p)

(***************************************************************************)
(* Bytes and text                                                          *)
(***************************************************************************)
LF == 10

CR == 13

DQuote == 34

Comma == 44

Backslash == 92

\* A call whose arguments are evaluated once, before the call, as Go
\* evaluates them.
Call2(F(_, _), a, b) == CHOOSE y \in {F(u, v) : u \in {a}, v \in {b}} : TRUE

Call3(F(_, _, _), a, b, c) ==
    CHOOSE y \in {F(u, v, w) : u \in {a}, v \in {b}, w \in {c}} : TRUE

Call4(F(_, _, _, _), a, b, c, d) ==
    CHOOSE y \in {F(u, v, w, x) : u \in {a}, v \in {b}, w \in {c},
                                  x \in {d}} : TRUE

Call5(F(_, _, _, _, _), a, b, c, d, e) ==
    CHOOSE y \in {F(u, v, w, x, z) : u \in {a}, v \in {b}, w \in {c},
                                     x \in {d}, z \in {e}} : TRUE

\* The first position of the byte b in s, 0 when there is none.
IndexOf(s, b) ==
    IF \E i \in 1..Len(s) : s[i] = b
    THEN CHOOSE i \in 1..Len(s) : s[i] = b /\ \A j \in 1..(i - 1) : s[j] # b
    ELSE 0

\* s from position i on.
From(s, i) == SubSeq(s, i, Len(s))

RECURSIVE Concat(_)
\* The concatenation of a sequence of byte strings.
Concat(ss) == IF ss = <<>> THEN <<>> ELSE Head(ss) \o Concat(Tail(ss))

RECURSIVE Join(_, _)
\* strings.Join(ss, sep)
Join(ss, sep) ==
    IF ss = <<>> THEN <<>>
    ELSE IF Len(ss) = 1 THEN ss[1]
    ELSE ss[1] \o sep \o Join(Tail(ss), sep)

RECURSIVE Itoa(_)
\* strconv.Itoa(n) for n >= 0
Itoa(n) == IF n < 10 THEN <<48 + n>> ELSE Itoa(n \div 10) \o <<48 + (n % 10)>>

RECURSIVE DigitsValue(_, _)
DigitsValue(s, acc) ==
    IF s = <<>> THEN acc ELSE DigitsValue(Tail(s), 10 * acc + (Head(s) - 48))

\* strconv.Atoi(s): an optional sign and decimal digits.
Atoi(s) ==
    LET signed == s # <<>> /\ s[1] \in {43, 45}
        ds == IF signed THEN Tail(s) ELSE s
    IN  IF ds = <<>> \/ \E i \in 1..Len(ds) : ds[i] < 48 \/ ds[i] > 57
        THEN [ok |-> FALSE, v |-> 0]
        ELSE [ok |-> TRUE,
              v |-> IF signed /\ s[1] = 45 THEN 0 - DigitsValue(ds, 0)
                    ELSE DigitsValue(ds, 0)]

\* s[i] is a UTF-8 continuation byte within lo..hi.
Cont(s, i, lo, hi) == Len(s) >= i /\ s[i] >= lo /\ s[i] <= hi

\* utf8.DecodeRune: the length of the well-formed UTF-8 sequence at the front
\* of the non-empty s, 0 when the front is not well-formed (RuneError, 1).
RuneLen(s) ==
    LET b == s[1]
    IN  IF b < 128 THEN 1
        ELSE IF b >= 194 /\ b <= 223
             THEN IF Cont(s, 2, 128, 191) THEN 2 ELSE 0
        ELSE IF b >= 224 /\ b <= 239
             THEN IF /\ Cont(s, 2, IF b = 224 THEN 160 ELSE 128,
                                   IF b = 237 THEN 159 ELSE 191)
                     /\ Cont(s, 3, 128, 191)
                  THEN 3 ELSE 0
        ELSE IF b >= 240 /\ b <= 244
             THEN IF /\ Cont(s, 2, IF b = 240 THEN 144 ELSE 128,
                                   IF b = 244 THEN 143 ELSE 191)
                     /\ Cont(s, 3, 128, 191)
                     /\ Cont(s, 4, 128, 191)
                  THEN 4 ELSE 0
        ELSE 0

\* U+FFFD in UTF-8.
RuneError == <<239, 191, 189>>

\* utf8.EncodeRune for a rune of the basic plane; a surrogate half is not a
\* rune and becomes U+FFFD.
EncodeRune(c) ==
    IF c < 128 THEN <<c>>
    ELSE IF c < 2048 THEN <<192 + (c \div 64), 128 + (c % 64)>>
    ELSE IF c >= 55296 /\ c <= 57343 THEN RuneError
    ELSE <<224 + (c \div 4096), 128 + ((c \div 64) % 64), 128 + (c % 64)>>

\* The lower-case hexadecimal digit of n < 16.
HexDigit(n) == IF n < 10 THEN 48 + n ELSE 87 + n

\* The value of the hexadecimal digit b, -1 when b is none.
HexValue(b) ==
    IF b >= 48 /\ b <= 57 THEN b - 48
    ELSE IF b >= 97 /\ b <= 102 THEN b - 87
    ELSE IF b >= 65 /\ b <= 70 THEN b - 55
    ELSE 0 - 1

(***************************************************************************)
(* encoding/json on a list of strings                                      *)
(***************************************************************************)
\* \u00XX
JSONU00(b) == <<Backslash, 117, 48, 48, HexDigit(b \div 16), HexDigit(b % 16)>>

RECURSIVE JSONEscape(_)
\* The body of a JSON string as json.Marshal writes it (HTML escaping on):
\* bytes that are not well-formed UTF-8 are written as the escape of U+FFFD.
JSONEscape(s) ==
    IF s = <<>> THEN <<>>
    ELSE LET b == s[1]
             n == RuneLen(s)
         IN  IF b < 128
             THEN (IF b \in {DQuote, Backslash} THEN <<Backslash, b>>
                   ELSE IF b = LF THEN <<Backslash, 110>>
                   ELSE IF b = CR THEN <<Backslash, 114>>
                   ELSE IF b = 9 THEN <<Backslash, 116>>
                   ELSE IF b < 32 \/ b \in {60, 62, 38} THEN JSONU00(b)
                   ELSE <<b>>) \o JSONEscape(Tail(s))
             ELSE IF n = 0
             THEN <<Backslash, 117, 102, 102, 102, 100>> \o JSONEscape(Tail(s))
             ELSE IF SubSeq(s, 1, 3) = <<226, 128, 168>>
             THEN <<Backslash, 117, 50, 48, 50, 56>> \o JSONEscape(From(s, 4))
             ELSE IF SubSeq(s, 1, 3) = <<226, 128, 169>>
             THEN <<Backslash, 117, 50, 48, 50, 57>> \o JSONEscape(From(s, 4))
             ELSE SubSeq(s, 1, n) \o JSONEscape(From(s, n + 1))

\* json.Marshal of a []string
JSONMarshal(ss) ==
    <<91>> \o Join([i \in 1..Len(ss) |-> <<DQuote>> \o JSONEscape(ss[i]) \o <<DQuote>>],
                   <<Comma>>) \o <<93>>

JSONFail == [ok |-> FALSE, v |-> <<>>, rest |-> <<>>]

RECURSIVE JSONUnquote(_, _)
\* The JSON string whose body starts r, up to its closing quote: the string
\* read (acc so far) and the text after it.
JSONUnquote(r, acc) ==
    IF r = <<>> THEN JSONFail
    ELSE LET b == r[1]
         IN  IF b = DQuote THEN [ok |-> TRUE, v |-> acc, rest |-> Tail(r)]
             ELSE IF b = Backslash
             THEN IF Len(r) < 2 THEN JSONFail
                  ELSE LET e == r[2]
                       IN  IF e \in {DQuote, Backslash, 47}
                           THEN Call2(JSONUnquote, From(r, 3), Append(acc, e))
                           ELSE IF e = 110 THEN Call2(JSONUnquote, From(r, 3), Append(acc, LF))
                           ELSE IF e = 114 THEN Call2(JSONUnquote, From(r, 3), Append(acc, CR))
                           ELSE IF e = 116 THEN Call2(JSONUnquote, From(r, 3), Append(acc, 9))
                           ELSE IF e = 98 THEN Call2(JSONUnquote, From(r, 3), Append(acc, 8))
                           ELSE IF e = 102 THEN Call2(JSONUnquote, From(r, 3), Append(acc, 12))
                           ELSE IF e = 117 /\ Len(r) >= 6
                                   /\ \A i \in 3..6 : HexValue(r[i]) >= 0
                           THEN Call2(JSONUnquote, From(r, 7),
                                    acc \o EncodeRune(4096 * HexValue(r[3])
                                                      + 256 * HexValue(r[4])
                                                      + 16 * HexValue(r[5])
                                                      + HexValue(r[6])))
                           ELSE JSONFail
             ELSE IF b < 32 THEN JSONFail
             ELSE IF RuneLen(r) = 0 THEN Call2(JSONUnquote, Tail(r), acc \o RuneError)
             ELSE Call2(JSONUnquote, From(r, RuneLen(r) + 1), acc \o SubSeq(r, 1, RuneLen(r)))

RECURSIVE JSONElements(_, _)
\* The elements of a JSON array of strings, r starting at an element.
JSONElements(r, acc) ==
    IF r = <<>> \/ r[1] # DQuote THEN JSONFail
    ELSE LET q == Call2(JSONUnquote, Tail(r), <<>>)
         IN  IF ~q.ok THEN JSONFail
             ELSE IF q.rest = <<93>>
             THEN [ok |-> TRUE, v |-> Append(acc, q.v), rest |-> <<>>]
             ELSE IF q.rest # <<>> /\ q.rest[1] = Comma
             THEN Call2(JSONElements, Tail(q.rest), Append(acc, q.v))
             ELSE JSONFail

\* json.Unmarshal(data, &s) for s a []string; null leaves s as it is.
JSONUnmarshal(data) ==
    IF data = <<91, 93>> \/ data = <<110, 117, 108, 108>>
    THEN [ok |-> TRUE, v |-> <<>>, rest |-> <<>>]
    ELSE IF data # <<>> /\ data[1] = 91 THEN JSONElements(Tail(data), <<>>)
    ELSE JSONFail

(***************************************************************************)
(* encoding/json on a map[string]int                                       *)
(***************************************************************************)
\* a < b in the order of sort.Strings: byte by byte, a prefix first.
LessBytes(a, b) ==
    \E i \in 1..Len(b) :
        /\ i - 1 <= Len(a)
        /\ \A j \in 1..(i - 1) : a[j] = b[j]
        /\ i > Len(a) \/ a[i] < b[i]

RECURSIVE SortedKeys(_)
\* The keys of a map in the order json.Marshal writes them.
SortedKeys(keys) ==
    IF keys = {} THEN <<>>
    ELSE LET first == CHOOSE k \in keys :
                          \A other \in keys \ {k} : LessBytes(k, other)
         IN  <<first>> \o SortedKeys(keys \ {first})

\* json.Marshal of an int
JSONInt(n) == IF n < 0 THEN <<45>> \o Itoa(0 - n) ELSE Itoa(n)

\* json.Marshal of a map[string]int: {"key":value,...}, the keys sorted.
JSONMarshalMap(m) ==
    LET keys == SortedKeys(DOMAIN m)
    IN  <<123>>
        \o Join([i \in 1..Len(keys) |->
                    <<DQuote>> \o JSONEscape(keys[i]) \o <<DQuote, 58>>
                    \o JSONInt(m[keys[i]])],
                <<Comma>>)
        \o <<125>>

\* The JSON number at the front of r read into an int: an optional minus
\* sign and digits without a leading zero, up to a comma or a brace.
JSONNumber(r) ==
    LET stop == IF IndexOf(r, Comma) > 0 THEN IndexOf(r, Comma)
                ELSE IndexOf(r, 125)
        text == SubSeq(r, 1, stop - 1)
        ds == IF text # <<>> /\ text[1] = 45 THEN Tail(text) ELSE text
    IN  IF stop = 0 \/ ds = <<>> \/ text[1] = 43 \/ ~Atoi(text).ok
           \/ (Len(ds) > 1 /\ ds[1] = 48)
        THEN JSONFail
        ELSE [ok |-> TRUE, v |-> Atoi(text).v, rest |-> From(r, stop)]

RECURSIVE JSONMembers(_, _)
\* The members of a JSON object, r starting at a key; a key that comes
\* again replaces the value read before.
JSONMembers(r, m) ==
    IF r = <<>> \/ r[1] # DQuote THEN JSONFail
    ELSE LET q == Call2(JSONUnquote, Tail(r), <<>>)
             n == IF q.ok /\ q.rest # <<>> /\ q.rest[1] = 58
                  THEN JSONNumber(Tail(q.rest)) ELSE JSONFail
         IN  IF ~n.ok THEN JSONFail
             ELSE IF n.rest = <<125>>
             THEN [ok |-> TRUE, v |-> MapSet(m, q.v, n.v), rest |-> <<>>]
             ELSE IF n.rest[1] = Comma
             THEN Call2(JSONMembers, Tail(n.rest), MapSet(m, q.v, n.v))
             ELSE JSONFail

\* json.Unmarshal(data, &m) for m an empty map[string]int.
JSONUnmarshalMap(data) ==
    IF data = <<123, 125>> \/ data = <<110, 117, 108, 108>>
    THEN [ok |-> TRUE, v |-> EmptyMap, rest |-> <<>>]
    ELSE IF data # <<>> /\ data[1] = 123
    THEN Call2(JSONMembers, Tail(data), EmptyMap)
    ELSE JSONFail

(***************************************************************************)
(* encoding/csv, with the default settings of NewWriter and NewReader      *)
(***************************************************************************)
\* unicode.IsSpace of the first rune of f, for the runes below U+0100.
FirstIsSpace(f) ==
    \/ f[1] \in {9, 10, 11, 12, 13, 32}
    \/ Len(f) >= 2 /\ f[1] = 194 /\ f[2] \in {133, 160}

\* Writer.fieldNeedsQuotes
FieldNeedsQuotes(f) ==
    /\ f # <<>>
    /\ \/ f = <<Backslash, 46>>
       \/ \E i \in 1..Len(f) : f[i] \in {LF, CR, DQuote, Comma}
       \/ FirstIsSpace(f)

RECURSIVE CSVQuoted(_)
\* The inside of a quoted field: a quote is doubled, \r and \n are written
\* as they are (UseCRLF is off).
CSVQuoted(f) ==
    IF f = <<>> THEN <<>>
    ELSE (IF f[1] = DQuote THEN <<DQuote, DQuote>> ELSE <<f[1]>>)
         \o CSVQuoted(Tail(f))

CSVField(f) ==
    IF FieldNeedsQuotes(f) THEN <<DQuote>> \o CSVQuoted(f) \o <<DQuote>> ELSE f

\* Writer.Write(record)
CSVWrite(rec) ==
    Join([i \in 1..Len(rec) |-> CSVField(rec[i])], <<Comma>>) \o <<LF>>

\* Writer.WriteAll(records)
CSVWriteAll(recs) == Concat([i \in 1..Len(recs) |-> CSVWrite(recs[i])])

\* lengthNL(line)
LengthNL(line) == IF line # <<>> /\ line[Len(line)] = LF THEN 1 ELSE 0

\* Reader.readLine, what ReadSlice('\n') returns at position pos <= Len(data).
RawLine(data, pos) ==
    LET j == Call2(IndexOf, From(data, pos), LF)
    IN  IF j = 0 THEN From(data, pos) ELSE SubSeq(data, pos, pos + j - 1)

\* Reader.readLine, the line made of raw: a trailing \r before the end of
\* the input is dropped and a final \r\n becomes \n.
CutLine(raw, pos) ==
    LET cut == IF raw[Len(raw)] = CR THEN SubSeq(raw, 1, Len(raw) - 1)
               ELSE raw
        n == Len(cut)
    IN  [eof |-> FALSE,
         line |-> IF n >= 2 /\ cut[n - 1] = CR /\ cut[n] = LF
                  THEN Append(SubSeq(cut, 1, n - 2), LF) ELSE cut,
         next |-> pos + Len(raw)]

\* Reader.readLine from position pos: the line with its \n.
ReadLine(data, pos) ==
    IF pos > Len(data) THEN [eof |-> TRUE, line |-> <<>>, next |-> pos]
    ELSE Call2(CutLine, RawLine(data, pos), pos)

RECURSIVE ParseFields(_, _, _, _)
RECURSIVE ParseQuoted(_, _, _, _, _)
\* Reader.readRecord, parseField: the fields of the record that starts with
\* line; next is the position of the input after line.
ParseFields(data, line, next, rec) ==
    IF line = <<>> \/ line[1] # DQuote
    THEN LET i == IndexOf(line, Comma)
             field == IF i > 0 THEN SubSeq(line, 1, i - 1)
                      ELSE SubSeq(line, 1, Len(line) - LengthNL(line))
         IN  IF IndexOf(field, DQuote) > 0
             THEN [kind |-> "err", rec |-> rec, next |-> next]
             ELSE IF i > 0
             THEN Call4(ParseFields, data, From(line, i + 1), next,
                        Append(rec, field))
             ELSE [kind |-> "rec", rec |-> Append(rec, field), next |-> next]
    ELSE Call5(ParseQuoted, data, Tail(line), next, rec, <<>>)

\* Reader.readRecord, a quoted field: line is what follows the opening quote
\* or a line the field runs on to, buf the field so far.
ParseQuoted(data, line, next, rec, buf) ==
    LET i == IndexOf(line, DQuote)
    IN  IF i > 0
        THEN LET got == buf \o SubSeq(line, 1, i - 1)
                 rest == From(line, i + 1)
             IN  IF rest # <<>> /\ rest[1] = DQuote
                 THEN Call5(ParseQuoted, data, Tail(rest), next, rec,
                            Append(got, DQuote))
                 ELSE IF rest # <<>> /\ rest[1] = Comma
                 THEN Call4(ParseFields, data, Tail(rest), next,
                            Append(rec, got))
                 ELSE IF LengthNL(rest) = Len(rest)
                 THEN [kind |-> "rec", rec |-> Append(rec, got), next |-> next]
                 ELSE [kind |-> "err", rec |-> rec, next |-> next]
        ELSE IF line # <<>>
        THEN LET l == ReadLine(data, next)
             IN  Call5(ParseQuoted, data, l.line, l.next, rec, buf \o line)
        ELSE [kind |-> "err", rec |-> rec, next |-> next]

RECURSIVE ReadRecord(_, _)
\* Reader.readRecord from position pos: empty lines are skipped.
ReadRecord(data, pos) ==
    LET l == ReadLine(data, pos)
    IN  IF l.eof THEN [kind |-> "eof", rec |-> <<>>, next |-> l.next]
        ELSE IF Len(l.line) = LengthNL(l.line)
        THEN Call2(ReadRecord, data, l.next)
        ELSE Call4(ParseFields, data, l.line, l.next, <<>>)

\* Reader.readRecord, the end: with FieldsPerRecord = fpr (0: not yet set) a
\* record whose number of fields is not that of the first record is an
\* error.
Counted(r, fpr) ==
    [kind |-> IF r.kind = "rec" /\ fpr > 0 /\ Len(r.rec) # fpr
              THEN "err" ELSE r.kind,
     rec |-> r.rec,
     next |-> r.next,
     fpr |-> IF r.kind # "eof" /\ fpr = 0 THEN Len(r.rec) ELSE fpr]

\* Reader.Read from position pos.
Read(data, pos, fpr) == Call2(Counted, ReadRecord(data, pos), fpr)

(***************************************************************************)
(* Ordinal: export and import.  A store is [encoder, decoder]; an import    *)
(* returns the store it leaves behind, the error it returns ("nil" for     *)
(* none) and whether it panicked.                                          *)
(***************************************************************************)
Store(enc, dec) == [encoder |-> enc, decoder |-> dec]

Imported(enc, dec, err, panic) ==
    [encoder |-> enc, decoder |-> dec, err |-> err, panic |-> panic]

\* MarshalJSON: json.Marshal(e.decoder)
MarshalJSON(st) == JSONMarshal(st.decoder)

RECURSIVE Rehash(_, _, _)
\* UnmarshalJSON, the loop: encoder[hashedKey] = uint64(idx) for each string.
Rehash(ss, idx, enc) ==
    IF idx >= Len(ss) THEN enc
    ELSE Rehash(ss, idx + 1, MapSet(enc, HashedKey(ss[idx + 1]), idx))

\* UnmarshalJSON on the store st.
UnmarshalJSON(st, data) ==
    LET s == JSONUnmarshal(data)
    IN  IF ~s.ok THEN Imported(st.encoder, st.decoder, "json", FALSE)
        ELSE Imported(Rehash(s.v, 0, EmptyMap), s.v, "nil", FALSE)

\* "value", "code"
CSVHeader == <<<<118, 97, 108, 117, 101>>, <<99, 111, 100, 101>>>>

\* MarshalCSV: the header and one line value,code for each string.
MarshalCSV(st) ==
    CSVWriteAll(<<CSVHeader>>
                \o [i \in 1..Len(st.decoder) |-> <<st.decoder[i], Itoa(i - 1)>>])

\* UnmarshalCSV: decoder[code] = line[0], the slice grown to code+1 first
\* when code is beyond it.
PutAt(dec, code, s) ==
    [i \in 1..(IF code + 1 > Len(dec) THEN code + 1 ELSE Len(dec)) |->
        IF i = code + 1 THEN s ELSE IF i <= Len(dec) THEN dec[i] ELSE Empty]

RECURSIVE CSVLines(_, _, _, _, _)
\* UnmarshalCSV, the loop after the header, for the record r just read: a
\* record the reader reports an error for is passed over, a code that is no
\* integer ends the import with that error; line[1] of a one-field record
\* and decoder[code] of a negative code panic.
CSVLine(data, r, enc, dec) ==
    IF r.kind = "eof" THEN Imported(enc, dec, "nil", FALSE)
    ELSE IF r.kind = "err" THEN CSVLines(data, r.next, r.fpr, enc, dec)
    ELSE IF Len(r.rec) < 2 THEN Imported(enc, dec, "nil", TRUE)
    ELSE LET code == Atoi(r.rec[2])
         IN  IF ~code.ok THEN Imported(enc, dec, "atoi", FALSE)
             ELSE IF code.v < 0
             THEN Imported(MapSet(enc, HashedKey(r.rec[1]), code.v), dec,
                           "nil", TRUE)
             ELSE CSVLines(data, r.next, r.fpr,
                           MapSet(enc, HashedKey(r.rec[1]), code.v),
                           PutAt(dec, code.v, r.rec[1]))

\* UnmarshalCSV, the loop after the header, reading from position pos.
CSVLines(data, pos, fpr, enc, dec) ==
    Call4(CSVLine, data, Read(data, pos, fpr), enc, dec)

\* UnmarshalCSV, the end: the map has been written in place, the list is
\* replaced only when the loop ended without an error.
CSVAssign(st, r) ==
    IF r.err = "nil" /\ ~r.panic THEN r
    ELSE Imported(r.encoder, st.decoder, r.err, r.panic)

\* UnmarshalCSV, after the header h has been read.
CSVBody(st, data, h) ==
    IF h.kind = "err" THEN Imported(st.encoder, st.decoder, "csv", FALSE)
    ELSE Call2(CSVAssign, st, CSVLines(data, h.next, h.fpr, st.encoder, <<>>))

\* UnmarshalCSV on the store st.
UnmarshalCSV(st, data) == Call3(CSVBody, st, data, Read(data, 1, 0))

\* The eight bytes of a uint64, most significant first.
Bytes64(u) ==
    <<u[4] \div 256, u[4] % 256, u[3] \div 256, u[3] % 256,
      u[2] \div 256, u[2] % 256, u[1] \div 256, u[1] % 256>>

RECURSIVE StripZeros(_)
StripZeros(s) ==
    IF s # <<>> /\ Head(s) = 0 THEN StripZeros(Tail(s)) ELSE s

\* encoding/gob, an unsigned integer: one byte below 128, otherwise the
\* negated byte count followed by the bytes, most significant first.
GobUint(u) ==
    LET b == StripZeros(Bytes64(u))
    IN  IF b = <<>> THEN <<0>>
        ELSE IF Len(b) = 1 /\ b[1] < 128 THEN b
        ELSE <<256 - Len(b)>> \o b

GobFail == [ok |-> FALSE, v |-> <<>>, next |-> 0]

\* encoding/gob, reading an unsigned integer at pos.
GobReadUint(data, pos) ==
    IF pos > Len(data) THEN GobFail
    ELSE IF data[pos] < 128
    THEN [ok |-> TRUE, v |-> U64(data[pos]), next |-> pos + 1]
    ELSE LET n == 256 - data[pos]
             b == [i \in 1..8 |->
                     IF i <= 8 - n THEN 0 ELSE data[pos + i - (8 - n)]]
         IN  IF n > 8 \/ pos + n > Len(data) THEN GobFail
             ELSE [ok |-> TRUE,
                   v |-> <<b[7] * 256 + b[8], b[5] * 256 + b[6],
                           b[3] * 256 + b[4], b[1] * 256 + b[2]>>,
                   next |-> pos + n + 1]

\* A count, a length or a code as an int (the model's are below Limb).
Small(u) == u[1]

RECURSIVE GobMap(_, _)
\* encoding/gob, the key and element pairs of a map, in some order.
GobMap(m, keys) ==
    IF keys = {} THEN <<>>
    ELSE LET k == CHOOSE x \in keys : TRUE
         IN  GobUint(k) \o GobUint(U64(m[k])) \o GobMap(m, keys \ {k})

\* encoding/gob, the elements of a []string: each its length and its bytes.
GobStrings(ss) ==
    Concat([i \in 1..Len(ss) |-> GobUint(U64(Len(ss[i]))) \o ss[i]])

\* GobEncode: the value of struct{Encoder, Decoder} as gob sends it: each
\* field that is sent as its distance from the field before it and its
\* value, then 0.  gob sends a map that is not nil, and leaves out a slice
\* of length 0.  (The type descriptors gob sends first are the same for
\* every store.)  The Lock GobEncode takes is released when it returns.
GobEncode(st) ==
    <<1>> \o GobUint(U64(Cardinality(DOMAIN st.encoder)))
          \o GobMap(st.encoder, DOMAIN st.encoder)
    \o (IF Len(st.decoder) = 0 THEN <<>>
        ELSE <<1>> \o GobUint(U64(Len(st.decoder))) \o GobStrings(st.decoder))
    \o <<0>>

RECURSIVE GobReadMap(_, _, _, _)
GobReadMap(data, pos, n, m) ==
    IF n = 0 THEN [ok |-> TRUE, v |-> m, next |-> pos]
    ELSE LET k == GobReadUint(data, pos)
             e == GobReadUint(data, k.next)
         IN  IF ~k.ok \/ ~e.ok THEN GobFail
             ELSE Call4(GobReadMap, data, e.next, n - 1,
                        MapSet(m, k.v, Small(e.v)))

RECURSIVE GobReadStrings(_, _, _, _)
GobReadStrings(data, pos, n, ss) ==
    IF n = 0 THEN [ok |-> TRUE, v |-> ss, next |-> pos]
    ELSE LET l == GobReadUint(data, pos)
         IN  IF ~l.ok THEN GobFail
             ELSE IF l.next + Small(l.v) - 1 > Len(data) THEN GobFail
             ELSE Call4(GobReadStrings, data, l.next + Small(l.v), n - 1,
                        Append(ss, SubSeq(data, l.next,
                                          l.next + Small(l.v) - 1)))

RECURSIVE GobFields(_, _, _, _)
\* encoding/gob, decoding the struct into eCopy: field is the number of the
\* last field read (-1 at the start); a field that was not sent stays nil.
GobFields(data, pos, field, eCopy) ==
    LET d == GobReadUint(data, pos)
        f == field + Small(d.v)
        n == GobReadUint(data, d.next)
    IN  IF ~d.ok THEN GobFail
        ELSE IF Small(d.v) = 0 THEN [ok |-> TRUE, v |-> eCopy, next |-> d.next]
        ELSE IF f > 1 \/ ~n.ok THEN GobFail
        ELSE LET r == IF f = 0
                      THEN Call4(GobReadMap, data, n.next, Small(n.v),
                                 EmptyMap)
                      ELSE Call4(GobReadStrings, data, n.next, Small(n.v),
                                 <<>>)
             IN  IF ~r.ok THEN GobFail
                 ELSE Call4(GobFields, data, r.next, f,
                          IF f = 0 THEN [eCopy EXCEPT !.Encoder = r.v]
                          ELSE [eCopy EXCEPT !.Decoder = r.v])

\* GobDecode on the store st: both fields come from the decoded struct; a
\* nil map reads as the empty map and a nil slice is the empty list.
GobDecode(st, data) ==
    LET r == Call4(GobFields, data, 1, -1,
                   [Encoder |-> EmptyMap, Decoder |-> <<>>])
    IN  IF ~r.ok THEN Imported(st.encoder, st.decoder, "gob", FALSE)
        ELSE Imported(r.v.Encoder, r.v.Decoder, "nil", FALSE)

(***************************************************************************)
(* Ordinal: one export and import.  io holds an Ordinal of its own that is  *)
(* built by Encode calls, the bytes of its export, and the fresh            *)
(* NewOrdinal(false) the bytes are imported into (out), with the error the  *)
(* import returned.                                                        *)
(***************************************************************************)
IOInit ==
    io = [phase |-> "build",
          encoder |-> NewOrdinal(FALSE).encoder,
          decoder |-> NewOrdinal(FALSE).decoder,
          asked |-> {},
          format |-> "none",
          data |-> <<>>,
          out |-> Imported(EmptyMap, <<>>, "nil", FALSE)]

\* Encode(s) on the Ordinal that is to be exported.
IOEncode(s) ==
    /\ io.phase = "build"
    /\ Len(io.decoder) < MaxVocab
    /\ LET r == EncodeStore(io.encoder, io.decoder, s)
       IN  io' = [io EXCEPT !.encoder = r.encoder, !.decoder = r.decoder,
                            !.asked = @ \cup {s}]
    /\ UNCHANGED nonIO

\* The Ordinal that is exported, and the fresh one the bytes are imported
\* into.
Original == Store(io.encoder, io.decoder)

Fresh == Store(NewOrdinal(FALSE).encoder, NewOrdinal(FALSE).decoder)

CallMarshalJSON ==
    /\ io.phase = "build"
    /\ io' = [io EXCEPT !.phase = "exported", !.format = "json",
                        !.data = MarshalJSON(Original)]
    /\ UNCHANGED nonIO

CallMarshalCSV ==
    /\ io.phase = "build"
    /\ io' = [io EXCEPT !.phase = "exported", !.format = "csv",
                        !.data = MarshalCSV(Original)]
    /\ UNCHANGED nonIO

CallGobEncode ==
    /\ io.phase = "build"
    /\ io' = [io EXCEPT !.phase = "exported", !.format = "gob",
                        !.data = GobEncode(Original)]
    /\ UNCHANGED nonIO

CallUnmarshalJSON ==
    /\ io.phase = "exported"
    /\ io.format = "json"
    /\ io' = [io EXCEPT !.phase = "imported",
                        !.out = UnmarshalJSON(Fresh, io.data)]
    /\ UNCHANGED nonIO

CallUnmarshalCSV ==
    /\ io.phase = "exported"
    /\ io.format = "csv"
    /\ io' = [io EXCEPT !.phase = "imported",
                        !.out = UnmarshalCSV(Fresh, io.data)]
    /\ UNCHANGED nonIO

CallGobDecode ==
    /\ io.phase = "exported"
    /\ io.format = "gob"
    /\ io' = [io EXCEPT !.phase = "imported",
                        !.out = GobDecode(Fresh, io.data)]
    /\ UNCHANGED nonIO

NextIO ==
    \/ \E s \in IOValues : IOEncode(s)
    \/ CallMarshalJSON
    \/ CallMarshalCSV
    \/ CallGobEncode
    \/ CallUnmarshalJSON
    \/ CallUnmarshalCSV
    \/ CallGobDecode

(***************************************************************************)
(* Ordinal: imports into the shared instance.  UnmarshalJSON, UnmarshalCSV  *)
(* and GobDecode take no lock: each assignment to e.encoder and e.decoder   *)
(* and each e.encoder[hashedKey] = code is a step of its own among the      *)
(* steps of the other goroutines.  The exchanged bytes, the parsed map      *)
(* (val) and list (out) and the reader's position (k, before) are locals    *)
(* of the goroutine.  An assignment is taken as one step; a reader that     *)
(* overlaps it may in addition see the list's pointer and length of         *)
(* different assignments, which only adds behaviours.                       *)
(***************************************************************************)
\* The vocabularies whose exports are imported into the shared Ordinal.
LoadVocabs == {<<Empty, StrA>>}

\* The Ordinal that holds the vocabulary dec.
Holding(dec) == Store(Rehash(dec, 0, EmptyMap), dec)

CallSharedUnmarshalJSON(p, dec) ==
    /\ ~crashed
    /\ g[p].pc = "idle"
    /\ g' = [g EXCEPT ![p] = Entered("UnmarshalJSON", "parse",
                                     MarshalJSON(Holding(dec)), <<>>)]
    /\ UNCHANGED <<nonOrdinal, encoder, decoder, rw, crashed, encoded>>

CallSharedUnmarshalCSV(p, dec) ==
    /\ ~crashed
    /\ g[p].pc = "idle"
    /\ g' = [g EXCEPT ![p] = Entered("UnmarshalCSV", "header",
                                     MarshalCSV(Holding(dec)), <<>>)]
    /\ UNCHANGED <<nonOrdinal, encoder, decoder, rw, crashed, encoded>>

CallSharedGobDecode(p, dec) ==
    /\ ~crashed
    /\ g[p].pc = "idle"
    /\ g' = [g EXCEPT ![p] = Entered("GobDecode", "parse",
                                     GobEncode(Holding(dec)), <<>>)]
    /\ UNCHANGED <<nonOrdinal, encoder, decoder, rw, crashed, encoded>>

\* UnmarshalJSON up to the loop's end, GobDecode up to dec.Decode: the map
\* and the list are locals; an error is returned with the store untouched.
SharedParse(p) ==
    /\ ~crashed
    /\ g[p].fn \in {"UnmarshalJSON", "GobDecode"} /\ g[p].pc = "parse"
    /\ LET st == Store(encoder, decoder)
           r == IF g[p].fn = "UnmarshalJSON"
                THEN UnmarshalJSON(st, g[p].arg)
                ELSE GobDecode(st, g[p].arg)
       IN  g' = [g EXCEPT ![p] =
                    IF r.err # "nil" THEN Idle
                    ELSE [@ EXCEPT !.pc = "set_encoder", !.val = r.encoder,
                                   !.out = r.decoder]]
    /\ UNCHANGED <<nonOrdinal, encoder, decoder, rw, crashed, encoded>>

\* UnmarshalJSON: e.encoder = encoder.  GobDecode: e.encoder = eCopy.Encoder
SharedSetEncoder(p) ==
    /\ ~crashed
    /\ g[p].pc = "set_encoder"
    /\ encoder' = g[p].val
    /\ g' = [g EXCEPT ![p].pc = "set_decoder"]
    /\ UNCHANGED <<nonOrdinal, decoder, rw, crashed, encoded>>

\* e.decoder = s, e.decoder = sam.SliceString(eCopy.Decoder), and
\* UnmarshalCSV's e.decoder = decoder; then return nil.
SharedSetDecoder(p) ==
    /\ ~crashed
    /\ g[p].pc = "set_decoder"
    /\ decoder' = g[p].out
    /\ g' = [g EXCEPT ![p] = Idle]
    /\ UNCHANGED <<nonOrdinal, encoder, rw, crashed, encoded>>

\* UnmarshalCSV: the header is read and dropped; an error of the reader
\* other than the end of the input is returned.
SharedCSVHeader(p) ==
    /\ ~crashed
    /\ g[p].fn = "UnmarshalCSV" /\ g[p].pc = "header"
    /\ LET h == Read(g[p].arg, 1, 0)
       IN  g' = [g EXCEPT ![p] =
                    IF h.kind = "err" THEN Idle
                    ELSE [@ EXCEPT !.pc = "line", !.k = h.next,
                                   !.before = h.fpr, !.out = <<>>]]
    /\ UNCHANGED <<nonOrdinal, encoder, decoder, rw, crashed, encoded>>

\* The record UnmarshalCSV's goroutine p reads next.
SharedRecord(p) == Read(g[p].arg, g[p].k, g[p].before)

\* UnmarshalCSV's next record is one with an integer code, which is
\* written into the shared map.
SharedWritesMap(p) ==
    /\ g[p].fn = "UnmarshalCSV" /\ g[p].pc = "line"
    /\ SharedRecord(p).kind = "rec"
    /\ Len(SharedRecord(p).rec) >= 2
    /\ Atoi(SharedRecord(p).rec[2]).ok

\* UnmarshalCSV, one round of the loop: the end of the input leads to the
\* assignment of the list, a record with an error is passed over, a code
\* that is no integer ends the import; otherwise e.encoder[hashedKey] is
\* written in place and the local list is filled.  line[1] of a one-field
\* record and decoder[code] of a negative code panic.
SharedCSVLine(p) ==
    /\ ~crashed
    /\ g[p].fn = "UnmarshalCSV" /\ g[p].pc = "line"
    /\ LET r == SharedRecord(p)
           code == Atoi(r.rec[2])
       IN  IF r.kind = "eof"
           THEN /\ g' = [g EXCEPT ![p].pc = "set_decoder"]
                /\ UNCHANGED <<encoder, crashed>>
           ELSE IF r.kind = "err"
           THEN /\ g' = [g EXCEPT ![p].k = r.next, ![p].before = r.fpr]
                /\ UNCHANGED <<encoder, crashed>>
           ELSE IF Len(r.rec) < 2
           THEN /\ g' = [g EXCEPT ![p].pc = "panic"]
                /\ crashed' = TRUE
                /\ UNCHANGED encoder
           ELSE IF ~code.ok
           THEN /\ g' = [g EXCEPT ![p] = Idle]
                /\ UNCHANGED <<encoder, crashed>>
           ELSE /\ encoder' = MapSet(encoder, HashedKey(r.rec[1]), code.v)
                /\ IF code.v < 0
                   THEN /\ g' = [g EXCEPT ![p].pc = "panic"]
                        /\ crashed' = TRUE
                   ELSE /\ g' = [g EXCEPT ![p].k = r.next,
                                          ![p].before = r.fpr,
                                          ![p].out = PutAt(@, code.v, r.rec[1])]
                        /\ UNCHANGED crashed
    /\ UNCHANGED <<nonOrdinal, decoder, rw, encoded>>

\* Goroutine q is at an access to the map e.encoder.
AtMapAccess(q) ==
    \/ g[q].fn \in {"Encode", "Contains"} /\ g[q].pc = "body"
    \/ g[q].pc = "assign"

\* UnmarshalCSV writes the map while another goroutine reads or writes it:
\* the runtime may end the program (concurrent map read and map write).
SharedCSVMapFault(p) ==
    /\ ~crashed
    /\ SharedWritesMap(p)
    /\ \E q \in Goroutines \ {p} : AtMapAccess(q)
    /\ crashed' = TRUE
    /\ g' = [g EXCEPT ![p].pc = "panic"]
    /\ UNCHANGED <<nonOrdinal, encoder, decoder, rw, encoded>>

\* One step of an import into the shared Ordinal by goroutine p.
StepImport(p) ==
    \/ \E dec \in LoadVocabs : CallSharedUnmarshalJSON(p, dec)
    \/ \E dec \in LoadVocabs : CallSharedUnmarshalCSV(p, dec)
    \/ \E dec \in LoadVocabs : CallSharedGobDecode(p, dec)
    \/ SharedParse(p)
    \/ SharedSetEncoder(p)
    \/ SharedSetDecoder(p)
    \/ SharedCSVHeader(p)
    \/ SharedCSVLine(p)
    \/ SharedCSVMapFault(p)

(***************************************************************************)
(* OneHot.  encoder is a map from string to int, nil when not made (a nil   *)
(* map reads as empty and panics when it is written); decoder is the list   *)
(* of strings.  A panic of a call is seen by the caller, who may recover    *)
(* from it and go on using the object it holds.                             *)
(***************************************************************************)
StrB == <<98>>

\* The strings passed to OneHot.Encode.
OneHotValues == {Empty, StrA, StrB}

\* The elements of the codewords passed to Decode and ContainsCode.
CodeBytes == {0, 1, 2}

\* The most dimensions of the OneHot.
MaxDim == 2

\* The longest codeword passed to Decode and ContainsCode.
MaxCodeLen == 3

Codewords == SeqsUpTo(CodeBytes, MaxCodeLen)

\* What a call gave: a panic, or the value and the error returned.
Returned(v, err) == [panic |-> FALSE, v |-> v, err |-> err]

Panicked == [panic |-> TRUE, v |-> <<>>, err |-> "nil"]

\* OneHot.code(s): the vector of len(e.decoder) zeros with code[dim] = 1,
\* dim the map's entry for s (0 when there is none).
OneHotCode(enc, dec, s) ==
    LET dim == Lookup(enc, s).v
    IN  IF dim < 0 \/ dim >= Len(dec) THEN Panicked
        ELSE Returned([i \in 1..Len(dec) |-> IF i = dim + 1 THEN 1 ELSE 0],
                      "nil")

\* OneHot.Encode(s) on the object o: the fields it leaves and what it gives.
OneHotEncode(o, s) ==
    IF Lookup(o.encoder, s).ok
    THEN [encoder |-> o.encoder, decoder |-> o.decoder,
          ret |-> OneHotCode(o.encoder, o.decoder, s)]
    ELSE IF ~o.made
    THEN [encoder |-> o.encoder, decoder |-> Append(o.decoder, s),
          ret |-> Panicked]
    ELSE LET dec == Append(o.decoder, s)
             enc == MapSet(o.encoder, s, Len(dec))
         IN  [encoder |-> enc, decoder |-> dec,
              ret |-> OneHotCode(enc, dec, s)]

\* OneHot.Decode, the loop: the zero-based position of the first 1, 0 when
\* there is none.
FirstOne(code) ==
    IF \E i \in 1..Len(code) : code[i] = 1
    THEN (CHOOSE i \in 1..Len(code) :
              code[i] = 1 /\ \A j \in 1..(i - 1) : code[j] # 1) - 1
    ELSE 0

\* OneHot.Decode(code)
OneHotDecode(dec, code) ==
    IF Len(code) > Len(dec) THEN Returned(Empty, "ErrLength")
    ELSE IF FirstOne(code) >= Len(dec) THEN Panicked
    ELSE Returned(dec[FirstOne(code) + 1], "nil")

\* A containsOne that is content with one or more elements equal to 1.
ContainsSomeOne(code, contains) ==
    contains \/ \E i \in 1..Len(code) : code[i] = 1

RECURSIVE ContainsOne(_, _)
\* containsOne(code), the loop from the state contains.
ContainsOne(code, contains) ==
    IF code = <<>> THEN contains
    ELSE IF Head(code) = 1
    THEN IF contains THEN FALSE ELSE ContainsOne(Tail(code), TRUE)
    ELSE ContainsOne(Tail(code), contains)

\* OneHot.ContainsCode(code)
OneHotContainsCode(dec, code) ==
    IF Len(dec) > Len(code) THEN FALSE ELSE ContainsOne(code, FALSE)

\* OneHot.Dimension()
Dimension == Len(oh.decoder)

NoCall == [fn |-> "none", arg |-> <<>>, ret |-> Returned(<<>>, "nil")]

OneHotInit ==
    oh = [origin |-> "none", held |-> FALSE, made |-> FALSE,
          encoder |-> EmptyMap, decoder |-> <<>>, last |-> NoCall]

\* NewOneHot(): the object is made and "" is encoded into it; the caller
\* gets the object when Encode returns.
CallNewOneHot ==
    /\ oh.origin = "none"
    /\ LET r == OneHotEncode([made |-> TRUE, encoder |-> EmptyMap,
                              decoder |-> <<>>], Empty)
       IN  oh' = [origin |-> "NewOneHot", held |-> ~r.ret.panic,
                  made |-> TRUE, encoder |-> r.encoder,
                  decoder |-> r.decoder,
                  last |-> [fn |-> "NewOneHot", arg |-> Empty, ret |-> r.ret]]
    /\ UNCHANGED nonOneHot

\* A OneHot made without NewOneHot: new(OneHot), whose map is nil, or, in
\* the package, the composite literal NewOneHot starts from.
MakeOneHot(made) ==
    /\ oh.origin = "none"
    /\ oh' = [oh EXCEPT !.origin = IF made THEN "literal" ELSE "new",
                        !.held = TRUE, !.made = made]
    /\ UNCHANGED nonOneHot

\* e.Encode(s)
CallOneHotEncode(s) ==
    /\ oh.held
    /\ Len(oh.decoder) < MaxDim \/ Lookup(oh.encoder, s).ok
    /\ LET r == OneHotEncode(oh, s)
       IN  oh' = [oh EXCEPT !.encoder = r.encoder, !.decoder = r.decoder,
                            !.last = [fn |-> "Encode", arg |-> s,
                                      ret |-> r.ret]]
    /\ UNCHANGED nonOneHot

\* e.Decode(code)
CallOneHotDecode(code) ==
    /\ oh.held
    /\ oh' = [oh EXCEPT !.last = [fn |-> "Decode", arg |-> code,
                                  ret |-> OneHotDecode(oh.decoder, code)]]
    /\ UNCHANGED nonOneHot

\* e.ContainsCode(code)
CallOneHotContainsCode(code) ==
    /\ oh.held
    /\ oh' = [oh EXCEPT !.last =
                 [fn |-> "ContainsCode", arg |-> code,
                  ret |-> Returned(OneHotContainsCode(oh.decoder, code),
                                   "nil")]]
    /\ UNCHANGED nonOneHot

NextOneHot ==
    \/ CallNewOneHot
    \/ \E made \in BOOLEAN : MakeOneHot(made)
    \/ \E s \in OneHotValues : CallOneHotEncode(s)
    \/ \E code \in Codewords : CallOneHotDecode(code)
    \/ \E code \in Codewords : CallOneHotContainsCode(code)

(***************************************************************************)
(* The batch-fitted encoders.  fit is the encoder of the run: its type, the *)
(* batch it was made from, its fields, and its last call with the result.   *)
(***************************************************************************)
\* The category values of a batch ("a" and "b").
BatchValues == {StrA, StrB}

\* The longest batch given to NewRollingFrequency.
MaxBatch == 6

\* The largest window given to NewRollingFrequency.
MaxWindow == 3

\* The windows given to NewRollingFrequency: -1, 0 and the positive ones.
Windows == (0 - 1)..MaxWindow

\* The indexes given to Get.
Indexes == (0 - 2)..(MaxBatch + 1)

\* sam.MapStringInt.Increment(key): m[key]++
Increment(m, key) == MapSet(m, key, Lookup(m, key).v + 1)

\* i % window for i >= 0 and window # 0: the remainder has the sign of i.
Rem(i, window) == IF window > 0 THEN i % window ELSE i % (0 - window)

\* NewRollingFrequency: the table is made anew when i%window == 0.
WindowStartAtZero(i, window) == i = 0

WindowStart(i, window) == Rem(i, window) = 0

RECURSIVE RollingLoop(_, _, _, _, _)
\* NewRollingFrequency, the loop from index i (zero-based) on; i%window
\* panics when window is 0.
RollingLoop(window, values, i, enc, codes) ==
    IF i >= Len(values) THEN Returned(codes, "nil")
    ELSE IF window = 0 THEN Panicked
    ELSE LET e == Increment(IF WindowStart(i, window) THEN EmptyMap ELSE enc,
                            values[i + 1])
         IN  Call5(RollingLoop, window, values, i + 1, e,
                   Append(codes, e[values[i + 1]]))

\* NewRollingFrequency(window, values): the codes of the encoder returned;
\* there is no error result.
NewRollingFrequency(window, values) ==
    RollingLoop(window, values, 0, EmptyMap, <<>>)

\* RollingFrequency.Get, JamesSteinClassification.Get with a bounds test
\* that lets index = len(codes) through.
GetPastEnd(codes, index) ==
    IF index < 0 \/ index > Len(codes) THEN Returned(0, "ErrBounds")
    ELSE IF index >= Len(codes) THEN Panicked
    ELSE Returned(codes[index + 1], "nil")

\* RollingFrequency.Get(index), JamesSteinClassification.Get(index)
Get(codes, index) ==
    IF index < 0 \/ index > Len(codes) - 1 THEN Returned(0, "ErrBounds")
    ELSE Returned(codes[index + 1], "nil")

NoFit ==
    [type |-> "none", window |-> 0, values |-> <<>>, target |-> <<>>,
     codes |-> <<>>, encoder |-> EmptyMap, made |-> FALSE, last |-> NoCall]

FitInit == fit = NoFit

\* e := NewRollingFrequency(window, values)
CallNewRollingFrequency(window, values) ==
    /\ fit.type = "none"
    /\ LET r == NewRollingFrequency(window, values)
       IN  fit' = [fit EXCEPT !.type = "RollingFrequency",
                              !.window = window, !.values = values,
                              !.made = ~r.panic,
                              !.codes = IF r.panic THEN <<>> ELSE r.v,
                              !.last = [fn |-> "NewRollingFrequency",
                                        arg |-> <<>>, ret |-> r]]
    /\ UNCHANGED nonFit

\* e.Get(index) on the RollingFrequency
CallRollingGet(index) ==
    /\ fit.type = "RollingFrequency"
    /\ fit.made
    /\ fit' = [fit EXCEPT !.last = [fn |-> "Get", arg |-> index,
                                    ret |-> Get(fit.codes, index)]]
    /\ UNCHANGED nonFit

\* The longest sequences given to the James-Stein constructors.
MaxPairs == 2

\* The numeric targets of NewJamesSteinRegression.
FloatTargets == {2, 4}

Batches == SeqsUpTo(BatchValues, MaxPairs)

\* A number kept exactly, as num/den of integers that are not negative;
\* den = 0 is what a division by zero gives: NaN for 0/0, +Inf otherwise.
Frac(n, d) == [num |-> n, den |-> d]

FracMul(x, y) == Frac(x.num * y.num, x.den * y.den)

FracAdd(x, y) == Frac(x.num * y.den + y.num * x.den, x.den * y.den)

\* 1 - x for x <= 1
OneMinus(x) == Frac(x.den - x.num, x.den)

\* x / y
FracDiv(x, y) ==
    IF y.num = 0 THEN Frac(IF x.num = 0 THEN 0 ELSE 1, 0)
    ELSE Frac(x.num * y.den, x.den * y.num)

\* x = y for two numbers that are defined
FracEq(x, y) == x.num * y.den = y.num * x.den

\* NewJamesSteinClassification, the body of the inner loop: the value
\* stored for a pair from its count, the group's count, classCount and
\* len(target).
ShrinkageB(count, groupCount, classCount, total) ==
    LET groupClassPercentage == Frac(count, classCount)
        classPercentage == Frac(classCount, total)
        groupClassValue ==
            FracDiv(FracMul(groupClassPercentage,
                            OneMinus(groupClassPercentage)),
                    Frac(groupCount, 1))
        classValue ==
            FracDiv(FracMul(classPercentage, OneMinus(classPercentage)),
                    Frac(total, 1))
    IN  FracDiv(groupClassValue, FracAdd(groupClassValue, classValue))

\* The length test of the constructors, true only for a shorter target.
TargetShorter(values, target) == Len(target) < Len(values)

\* len(target) != len(values)
TargetLengthMismatch(values, target) == Len(target) # Len(values)

RECURSIVE CountLoop(_, _, _, _, _, _)
\* NewJamesSteinClassification, the first loop from index i (zero-based):
\* groupClassCounts[group] is the nil map until an entry is made for group,
\* and Increment on the nil map panics.
CountLoop(values, target, i, groupCounts, classCounts, groupClassCounts) ==
    IF i >= Len(values)
    THEN [panic |-> FALSE, groupCounts |-> groupCounts,
          classCounts |-> classCounts, groupClassCounts |-> groupClassCounts]
    ELSE IF ~Lookup(groupClassCounts, values[i + 1]).ok
    THEN [panic |-> TRUE, groupCounts |-> Increment(groupCounts, values[i + 1]),
          classCounts |-> Increment(classCounts, target[i + 1]),
          groupClassCounts |-> groupClassCounts]
    ELSE CountLoop(values, target, i + 1,
                   Increment(groupCounts, values[i + 1]),
                   Increment(classCounts, target[i + 1]),
                   MapSet(groupClassCounts, values[i + 1],
                          Increment(groupClassCounts[values[i + 1]],
                                    target[i + 1])))

\* NewJamesSteinClassification, the second loop, the value computed for the
\* pair (group, class): classCounts is there the loop variable, the counts
\* of the classes within the group.
PairB(c, group, class, total) ==
    ShrinkageB(c.groupClassCounts[group][class], c.groupCounts[group],
               c.groupClassCounts[group][class], total)

\* NewJamesSteinClassification, the second loop: groupClassBValues[group]
\* is the nil map, so storing the value of the first pair panics.
GroupClassBValues(c, total) ==
    IF \E group \in DOMAIN c.groupClassCounts :
           DOMAIN c.groupClassCounts[group] # {}
    THEN Panicked
    ELSE Returned(EmptyMap, "nil")

\* NewJamesSteinClassification(values, target): the error and the
\* encodedValues of the encoder returned.  The third loop reads
\* groupClassBValues[group][class], 0 for a pair that is not there.
NewJamesSteinClassification(values, target) ==
    IF TargetLengthMismatch(values, target)
    THEN Returned(<<>>, "ErrTargetLength")
    ELSE LET c == CountLoop(values, target, 0, EmptyMap, EmptyMap, EmptyMap)
         IN  IF c.panic THEN Panicked
             ELSE IF GroupClassBValues(c, Len(target)).panic THEN Panicked
             ELSE Returned([i \in 1..Len(values) |-> Frac(0, 1)], "nil")

\* sam.SliceFloat64.Avg of the targets given with the category k
Avg(values, target, k) ==
    LET at == {i \in 1..Len(values) : values[i] = k}
        sum[S \in SUBSET at] ==
            IF S = {} THEN 0
            ELSE LET i == CHOOSE x \in S : TRUE
                 IN  target[i] + sum[S \ {i}]
    IN  Frac(sum[at], Cardinality(at))

\* NewJamesSteinRegression(values, target): the error and the encoder map
\* of the encoder returned (the nil map with the error).
NewJamesSteinRegression(values, target) ==
    IF TargetLengthMismatch(values, target)
    THEN Returned(EmptyMap, "ErrTargetLength")
    ELSE Returned([k \in {values[i] : i \in 1..Len(values)} |->
                      Avg(values, target, k)], "nil")

\* JamesSteinRegression.Get(s): v, ok
RegressionGet(enc, s) ==
    IF s \in DOMAIN enc THEN <<enc[s], TRUE>> ELSE <<Frac(0, 1), FALSE>>

\* e, err := NewJamesSteinRegression(values, target)
CallNewJamesSteinRegression(values, target) ==
    /\ fit.type = "none"
    /\ LET r == NewJamesSteinRegression(values, target)
       IN  fit' = [fit EXCEPT !.type = "JamesSteinRegression",
                              !.values = values, !.target = target,
                              !.made = ~r.panic,
                              !.encoder = IF r.panic THEN EmptyMap ELSE r.v,
                              !.last = [fn |-> "NewJamesSteinRegression",
                                        arg |-> <<>>, ret |-> r]]
    /\ UNCHANGED nonFit

\* e, err := NewJamesSteinClassification(values, target)
CallNewJamesSteinClassification(values, target) ==
    /\ fit.type = "none"
    /\ LET r == NewJamesSteinClassification(values, target)
       IN  fit' = [fit EXCEPT !.type = "JamesSteinClassification",
                              !.values = values, !.target = target,
                              !.made = ~r.panic,
                              !.codes = IF r.panic THEN <<>> ELSE r.v,
                              !.last = [fn |-> "NewJamesSteinClassification",
                                        arg |-> <<>>, ret |-> r]]
    /\ UNCHANGED nonFit

\* e.Get(s) on the JamesSteinRegression
CallRegressionGet(s) ==
    /\ fit.type = "JamesSteinRegression"
    /\ fit.made
    /\ fit' = [fit EXCEPT !.last = [fn |-> "Get", arg |-> s,
                                    ret |-> Returned(RegressionGet(fit.encoder, s),
                                                     "nil")]]
    /\ UNCHANGED nonFit

\* e.Get(index) on the JamesSteinClassification
CallClassificationGet(index) ==
    /\ fit.type = "JamesSteinClassification"
    /\ fit.made
    /\ fit' = [fit EXCEPT !.last = [fn |-> "Get", arg |-> index,
                                    ret |-> Get(fit.codes, index)]]
    /\ UNCHANGED nonFit

NextFit ==
    \/ \E window \in Windows, values \in SeqsUpTo(BatchValues, MaxBatch) :
          CallNewRollingFrequency(window, values)
    \/ \E index \in Indexes : CallRollingGet(index)
    \/ \E values \in Batches, target \in SeqsUpTo(FloatTargets, MaxPairs) :
          CallNewJamesSteinRegression(values, target)
    \/ \E values \in Batches, target \in Batches :
          CallNewJamesSteinClassification(values, target)
    \/ \E s \in BatchValues : CallRegressionGet(s)
    \/ \E index \in Indexes : CallClassificationGet(index)

(***************************************************************************)
(* JSON export and import of the OneHot and of the Ordinal that keeps a    *)
(* map[string]int.  An import gives the object the caller holds after the  *)
(* call (self), the object the method's own e points to when it returns    *)
(* (e), and the error ("nil" for none).                                    *)
(***************************************************************************)
\* The map-based Ordinal's Encode(s) on the object o.
MapOrdinalEncode(o, s) ==
    IF ~Lookup(o.encoder, s).ok
    THEN [encoder |-> MapSet(o.encoder, s, Len(o.decoder)),
          decoder |-> Append(o.decoder, s),
          code |-> Len(o.decoder)]
    ELSE [encoder |-> o.encoder, decoder |-> o.decoder,
          code |-> Lookup(o.encoder, s).v]

\* The map-based NewOrdinal(): "" is encoded as 0.
MapNewOrdinal ==
    Store(MapOrdinalEncode(Store(EmptyMap, <<>>), Empty).encoder,
          MapOrdinalEncode(Store(EmptyMap, <<>>), Empty).decoder)

\* The map-based Ordinal's MarshalJSON: json.Marshal(e.encoder)
MapOrdinalMarshalJSON(o) == JSONMarshalMap(o.encoder)

\* UnmarshalJSON's test in the loop, met by some entry of m.
OutsideBounds(m) ==
    \E value \in DOMAIN m :
        m[value] >= Cardinality(DOMAIN m) \/ m[value] < 0

\* UnmarshalJSON's decoder after the loop over a map with no code outside
\* the bounds and no code twice: decoder[code] = value.
DecoderOf(m) ==
    [i \in 1..Cardinality(DOMAIN m) |->
        IF \E value \in DOMAIN m : m[value] = i - 1
        THEN CHOOSE value \in DOMAIN m : m[value] = i - 1
        ELSE Empty]

\* The map-based Ordinal's UnmarshalJSON(data) called on the object self:
\* e = &Ordinal{...} points the method's e at a new object and leaves the
\* caller's alone.
MapOrdinalUnmarshalJSON(self, data) ==
    LET m == JSONUnmarshalMap(data)
    IN  IF ~m.ok THEN [self |-> self, e |-> self, err |-> "json"]
        ELSE IF OutsideBounds(m.v)
        THEN [self |-> self, e |-> self, err |-> "bounds"]
        ELSE [self |-> self, e |-> Store(m.v, DecoderOf(m.v)),
              err |-> "nil"]

\* OneHot.MarshalJSON: json.Marshal(e.decoder)
OneHotMarshalJSON(o) == JSONMarshal(o.decoder)

\* OneHot.UnmarshalJSON, the loop: encoder[v] = i + 1 for each string.
OneHotIndex(s) ==
    [v \in {s[i] : i \in 1..Len(s)} |->
        CHOOSE n \in 1..Len(s) :
            s[n] = v /\ \A later \in (n + 1)..Len(s) : s[later] # v]

\* OneHot.UnmarshalJSON(data) called on the object self: e = &OneHot{...}
\* points the method's e at a new object and leaves the caller's alone.
OneHotUnmarshalJSON(self, data) ==
    LET s == JSONUnmarshal(data)
    IN  IF ~s.ok THEN [self |-> self, e |-> self, err |-> "json"]
        ELSE [self |-> self, e |-> Store(OneHotIndex(s.v), s.v),
              err |-> "nil"]

\* The codes of the maps whose JSON is handed to UnmarshalJSON directly.
RawCodes == (0 - 1)..MaxDim

\* Maps from strings to codes with no code twice.
RawMaps ==
    {m \in UNION {[keys -> RawCodes] : keys \in SUBSET {Empty, StrA}} :
        \A v \in DOMAIN m : \A w \in DOMAIN m : m[v] = m[w] => v = w}

\* rt: an encoder A (a) of one kind, the bytes of its export, and the fresh
\* encoder B the bytes are imported into (b), with the object UnmarshalJSON
\* built (e) and the error it returned; sent is the map the bytes stand for.
RoundTripInit ==
    rt = [kind |-> "none", phase |-> "build", made |-> FALSE,
          a |-> Store(EmptyMap, <<>>), sent |-> EmptyMap, data |-> <<>>,
          b |-> Store(EmptyMap, <<>>), e |-> Store(EmptyMap, <<>>),
          err |-> "nil"]

\* A: a OneHot, new(OneHot) or the literal NewOneHot starts from.
MakeOneHotA(made) ==
    /\ rt.kind = "none"
    /\ rt' = [rt EXCEPT !.kind = "OneHot", !.made = made]
    /\ UNCHANGED nonRoundTrip

\* A: NewOrdinal() of the map-based Ordinal.
MakeOrdinalA ==
    /\ rt.kind = "none"
    /\ rt' = [rt EXCEPT !.kind = "Ordinal", !.made = TRUE,
                        !.a = MapNewOrdinal]
    /\ UNCHANGED nonRoundTrip

\* A.Encode(s) on the OneHot; the caller goes on after a panic.
CallOneHotEncodeA(s) ==
    /\ rt.kind = "OneHot" /\ rt.phase = "build"
    /\ Len(rt.a.decoder) < MaxDim
    /\ LET r == OneHotEncode([made |-> rt.made, encoder |-> rt.a.encoder,
                              decoder |-> rt.a.decoder], s)
       IN  rt' = [rt EXCEPT !.a = Store(r.encoder, r.decoder)]
    /\ UNCHANGED nonRoundTrip

\* A.Encode(s) on the map-based Ordinal.
CallMapOrdinalEncode(s) ==
    /\ rt.kind = "Ordinal" /\ rt.phase = "build"
    /\ Len(rt.a.decoder) < MaxDim
    /\ LET r == MapOrdinalEncode(rt.a, s)
       IN  rt' = [rt EXCEPT !.a = Store(r.encoder, r.decoder)]
    /\ UNCHANGED nonRoundTrip

CallOneHotMarshalJSON ==
    /\ rt.kind = "OneHot" /\ rt.phase = "build"
    /\ rt' = [rt EXCEPT !.phase = "exported",
                        !.data = OneHotMarshalJSON(rt.a)]
    /\ UNCHANGED nonRoundTrip

CallMapOrdinalMarshalJSON ==
    /\ rt.kind = "Ordinal" /\ rt.phase = "build"
    /\ rt' = [rt EXCEPT !.phase = "exported", !.sent = rt.a.encoder,
                        !.data = MapOrdinalMarshalJSON(rt.a)]
    /\ UNCHANGED nonRoundTrip

\* B.UnmarshalJSON(data) on a fresh OneHot B, which holds no string, be it
\* new(OneHot) or the literal NewOneHot starts from.
CallOneHotUnmarshalJSON ==
    /\ rt.kind = "OneHot" /\ rt.phase = "exported"
    /\ LET r == OneHotUnmarshalJSON(Store(EmptyMap, <<>>), rt.data)
       IN  rt' = [rt EXCEPT !.phase = "imported",
                            !.b = r.self, !.e = r.e, !.err = r.err]
    /\ UNCHANGED nonRoundTrip

\* B.UnmarshalJSON(data) on a fresh map-based Ordinal B.
CallMapOrdinalUnmarshalJSON ==
    /\ rt.kind = "Ordinal" /\ rt.phase = "exported"
    /\ LET r == MapOrdinalUnmarshalJSON(MapNewOrdinal, rt.data)
       IN  rt' = [rt EXCEPT !.phase = "imported",
                            !.b = r.self, !.e = r.e, !.err = r.err]
    /\ UNCHANGED nonRoundTrip

\* B.UnmarshalJSON on the JSON of a map no Ordinal exported.
CallMapOrdinalUnmarshalRaw(m) ==
    /\ rt.kind = "none"
    /\ LET r == MapOrdinalUnmarshalJSON(MapNewOrdinal, JSONMarshalMap(m))
       IN  rt' = [rt EXCEPT !.kind = "raw", !.phase = "imported",
                            !.sent = m, !.data = JSONMarshalMap(m),
                            !.b = r.self, !.e = r.e, !.err = r.err]
    /\ UNCHANGED nonRoundTrip

NextRoundTrip ==
    \/ \E made \in BOOLEAN : MakeOneHotA(made)
    \/ MakeOrdinalA
    \/ \E s \in OneHotValues : CallOneHotEncodeA(s)
    \/ \E s \in OneHotValues : CallMapOrdinalEncode(s)
    \/ CallOneHotMarshalJSON
    \/ CallMapOrdinalMarshalJSON
    \/ CallOneHotUnmarshalJSON
    \/ CallMapOrdinalUnmarshalJSON
    \/ \E m \in RawMaps : CallMapOrdinalUnmarshalRaw(m)

(***************************************************************************)
(* Specifications                                                          *)
(***************************************************************************)
Init == OrdinalInit /\ IOInit /\ OneHotInit /\ FitInit /\ RoundTripInit

\* Goroutines calling the shared Ordinal concurrently.
Spec == Init /\ [][Next]_vars

\* One goroutine calling the shared Ordinal.
SpecSeq == Init /\ [][Step(1)]_vars

\* One export and import.
SpecIO == Init /\ [][NextIO]_vars

\* One goroutine calling the shared Ordinal, ContainsCode included, and one
\* goroutine importing into it.
NextShared == StepShared(1) \/ StepContainsCode(1) \/ StepImport(2)

SpecShared == Init /\ [][NextShared]_vars

\* One JSON export and import of a OneHot or of a map-based Ordinal.
SpecRoundTrip == Init /\ [][NextRoundTrip]_vars

\* Calls on one OneHot.
SpecOneHot == Init /\ [][NextOneHot]_vars

\* One batch-fitted encoder and the calls on it.
SpecFit == Init /\ [][NextFit]_vars

(***************************************************************************)
(* Properties of the Ordinal store                                         *)
(***************************************************************************)
\* No writer is inside the store's critical section.
Quiescent == ~rw.held

\* A writer that holds the lock is alone in the store: no reader is inside,
\* and only the holder is between Lock and Unlock.
MutualExclusion ==
    rw.held =>
        /\ rw.readers = 0
        /\ \A p \in Goroutines :
              g[p].pc \in {"append", "assign"} => rw.writer = p

\* Outside Encode's critical section the map and the list agree: the map
\* holds exactly the keys of the listed strings, each with its position.
StoreConsistent ==
    Quiescent =>
        /\ DOMAIN encoder = {HashedKey(decoder[i]) : i \in 1..Len(decoder)}
        /\ \A i \in 1..Len(decoder) : encoder[HashedKey(decoder[i])] = i - 1

\* What Decode returns for the code c in the current state.
DecodeOf(c) == DecodeBody(decoder, U64(c))

\* The strings Encode has returned a code for.
EncodedStrings == {c[1] : c \in encoded}

\* C1: Decode(Encode(s)) = s: whenever Encode is about to return a code for
\* s, Decode of that code returns s, for every string s whatever its hash.
C1_DecodeEncodeRoundTrip ==
    \A p \in Goroutines :
        Returning(p, "Encode") =>
            DecodeOf(g[p].val) = [panic |-> FALSE, v |-> g[p].arg]

\* C2: the check-then-assign step of concurrent Encode calls is atomic: a new
\* value is never given a code that another value holds, no value is given
\* two codes, and once all calls have returned the codes given out are
\* exactly 0 .. Length()-1.
C2_AtomicCheckThenAssign ==
    /\ \A p \in Goroutines :
          Returning(p, "Encode") /\ g[p].fresh =>
              \A c \in encoded : c[2] # g[p].val
    /\ \A c, d \in encoded : c[1] = d[1] => c[2] = d[2]
    /\ (\A p \in Goroutines : g[p].pc = "idle") =>
          {c[2] : c \in encoded} = 0 .. (Len(decoder) - 1)

\* C3: with one goroutine in DecodeSlice and another in Encode, the two calls
\* are never stuck: while both are pending, one of them can take a step.
C3_DecodeSliceEncodeNoDeadlock ==
    \A p, q \in Goroutines :
        (/\ ~crashed
         /\ InCall(p) /\ "DecodeSlice" \in {g[p].fn, g[p].outer}
         /\ InCall(q) /\ g[q].fn = "Encode" /\ g[q].outer = "none")
        => (ENABLED Step(p)) \/ (ENABLED Step(q))

\* C4: a call of EncodeSlice by a goroutine running alone is never stuck: it
\* can always take its next step, and the codes it is about to return are
\* those of Encode applied to the elements in order.
C4_EncodeSliceReturns ==
    /\ (InCall(1) /\ "EncodeSlice" \in {g[1].fn, g[1].outer}) => ENABLED Step(1)
    /\ Returning(1, "EncodeSlice") =>
          /\ Len(g[1].val) = Len(g[1].xs)
          /\ \A i \in 1..Len(g[1].xs) :
                g[1].val[i] = EncodeStore(encoder, decoder, g[1].xs[i]).code

\* C5: Decode never panics, and for a code outside [0, Length()) it returns
\* the empty string; DecodeSlice does so element by element.
C5_DecodeOutOfRangeIsEmpty ==
    /\ ~crashed
    /\ \A p \in Goroutines :
          /\ Returning(p, "Decode") /\ ~IndexOK(g[p].arg, Len(decoder))
                => g[p].val = Empty
          /\ Returning(p, "DecodeSlice") =>
                /\ Len(g[p].val) = Len(g[p].xs)
                /\ \A i \in 1..Len(g[p].xs) :
                      g[p].xs[i] \notin 0..(Len(decoder) - 1)
                          => g[p].val[i] = Empty

\* C6: the vocabulary is a dense bijection: when N distinct strings have been
\* encoded, Length() is N, the codes given out are exactly 0 .. N-1, every
\* code decodes to one of the strings and every string has exactly one code.
C6_DenseBijection ==
    Quiescent =>
        LET N == Cardinality(EncodedStrings)
        IN  /\ Len(decoder) = N
            /\ {c[2] : c \in encoded} = 0 .. (N - 1)
            /\ \A i \in 0 .. (N - 1) : DecodeOf(i).v \in EncodedStrings
            /\ \A c, d \in encoded : (c[1] = d[1]) <=> (c[2] = d[2])

\* C7: the vocabulary is append-only: in every step the decode list of the
\* state before is a prefix of the decode list after, every key of the map
\* keeps its code, and every string that has a code keeps it.
C7_AppendOnly ==
    [][/\ Len(decoder) <= Len(decoder')
       /\ SubSeq(decoder', 1, Len(decoder)) = decoder
       /\ \A k \in DOMAIN encoder :
             k \in DOMAIN encoder' /\ encoder'[k] = encoder[k]
       /\ \A c \in encoded :
             /\ c \in encoded'
             /\ Quiescent' =>
                   EncodeStore(encoder', decoder', c[1]).code = c[2]]_vars

\* C7 witness: a string encoded before is encoded again after the vocabulary
\* has grown, and is about to get the code it had.
C7_Witness ==
    \E p \in Goroutines :
        /\ Returning(p, "Encode")
        /\ ~g[p].fresh
        /\ g[p].val = 0
        /\ Len(decoder) >= 3

\* C8: Encode is idempotent: it returns for s the code every earlier call
\* returned for s, and the call grows Length() by exactly 1 when s is new and
\* by 0 when s was encoded before.
C8_EncodeIdempotent ==
    \A p \in Goroutines :
        Returning(p, "Encode") =>
            /\ \A c \in encoded : c[1] = g[p].arg => c[2] = g[p].val
            /\ Len(decoder) - g[p].before = (IF g[p].fresh THEN 1 ELSE 0)

\* C9: Encode of an unseen value returns the vocabulary size before the call,
\* and the empty string pre-seeded by NewOrdinal(true) keeps code 0.
C9_UnseenGetsNextCode ==
    \A p \in Goroutines :
        Returning(p, "Encode") =>
            /\ g[p].fresh => g[p].val = g[p].before
            /\ (<<Empty, 0>> \in encoded /\ g[p].arg = Empty) => g[p].val = 0

\* C10: after an export with MarshalJSON, MarshalCSV or GobEncode and the
\* import of the bytes into a fresh NewOrdinal(false) with the matching
\* UnmarshalJSON, UnmarshalCSV or GobDecode, the import has returned no
\* error, Decode of every code gives on the imported store what it gives
\* on the original one, and Encode of every value that was encoded into
\* the original store returns on the imported store the code it has there.
C10_ExportImportRoundTrip ==
    io.phase = "imported" =>
        /\ io.out.err = "nil"
        /\ ~io.out.panic
        /\ \A c \in 0..MaxVocab :
              DecodeBody(io.out.decoder, U64(c)) = DecodeBody(io.decoder, U64(c))
        /\ \A s \in io.asked :
              EncodeStore(io.out.encoder, io.out.decoder, s).code
                  = EncodeStore(io.encoder, io.decoder, s).code

(***************************************************************************)
(* Properties of the OneHot                                                *)
(***************************************************************************)
\* The one-hot vector of s over the vocabulary dec: as long as dec, 1 where
\* dec holds s and 0 elsewhere.
VectorOf(dec, s) == [i \in 1..Len(dec) |-> IF dec[i] = s THEN 1 ELSE 0]

\* The number of elements of code equal to 1.
Ones(code) == Cardinality({i \in 1..Len(code) : code[i] = 1})

\* C11: NewOneHot() returns an encoder whose first dimension is the empty
\* string, and every Encode(v), of a new or a known v, returns without a
\* panic a vector as long as Dimension() after the call, with exactly one 1,
\* at the zero-based position of v in the vocabulary, and 0 elsewhere.
C11_EncodeIsOneHotVector ==
    /\ oh.last.fn = "NewOneHot" =>
          /\ ~oh.last.ret.panic
          /\ oh.held
          /\ Dimension >= 1
          /\ oh.decoder[1] = Empty
    /\ oh.last.fn = "Encode" =>
          /\ ~oh.last.ret.panic
          /\ Len(oh.last.ret.v) = Dimension
          /\ Ones(oh.last.ret.v) = 1
          /\ oh.last.ret.v = VectorOf(oh.decoder, oh.last.arg)

\* C12: when Encode(v) has returned and nothing else has been encoded since,
\* Decode of the vector it returned gives (v, nil).
C12_OneHotDecodeEncodeRoundTrip ==
    oh.last.fn = "Encode" =>
        /\ ~oh.last.ret.panic
        /\ OneHotDecode(oh.decoder, oh.last.ret.v)
               = Returned(oh.last.arg, "nil")

\* C13: Decode(codeword) returns ErrLength when the codeword is shorter than
\* Dimension(); for every other codeword it returns, with a nil error and
\* without a panic, the category at the position of the first element equal
\* to 1 (when that position is one of the vocabulary).
C13_DecodeErrLengthWhenShorter ==
    oh.last.fn = "Decode" =>
        IF Len(oh.last.arg) < Dimension
        THEN ~oh.last.ret.panic /\ oh.last.ret.err = "ErrLength"
        ELSE /\ ~oh.last.ret.panic
             /\ oh.last.ret.err = "nil"
             /\ \A i \in 1..Dimension :
                   (oh.last.arg[i] = 1 /\ \A j \in 1..(i - 1) : oh.last.arg[j] # 1)
                       => oh.last.ret.v = oh.decoder[i]

\* C14: ContainsCode(codeword) is true exactly when the codeword is at least
\* as long as Dimension() and exactly one of its elements is 1; it is false
\* for an all-zero codeword and for one with two or more elements equal to 1.
C14_ContainsCodeIffOneSetBit ==
    oh.last.fn = "ContainsCode" =>
        /\ ~oh.last.ret.panic
        /\ oh.last.ret.v = (Len(oh.last.arg) >= Dimension /\ Ones(oh.last.arg) = 1)

\* ContainsCode has been called on a vocabulary of two with a codeword that
\* covers it and with one that does not, and has said yes.
C14_Witness ==
    /\ oh.last.fn = "ContainsCode"
    /\ Dimension = 2
    /\ Len(oh.last.arg) = 3
    /\ Ones(oh.last.arg) = 1
    /\ oh.last.ret.v

(***************************************************************************)
(* Properties of the batch-fitted encoders                                 *)
(***************************************************************************)
\* NewRollingFrequency(fit.window, fit.values) has just been called.
RollingMade == fit.last.fn = "NewRollingFrequency"

\* The number of observations equal to observation i (zero-based) from the
\* start of its window up to i.
CountInWindow(window, values, i) ==
    Cardinality({j \in (window * (i \div window))..i :
                    values[j + 1] = values[i + 1]})

\* C15: for every window > 0 and every sequence of values,
\* NewRollingFrequency makes codes as long as the values, code i being the
\* number of j with window*floor(i/window) <= j <= i and values[j] =
\* values[i]; for window 3 and [x,x,y,x,y,y] the codes are [1,2,1,1,1,2].
C15_RollingCodes ==
    (RollingMade /\ fit.window > 0) =>
        /\ ~fit.last.ret.panic
        /\ fit.made
        /\ Len(fit.codes) = Len(fit.values)
        /\ \A i \in 0..(Len(fit.values) - 1) :
              fit.codes[i + 1] = CountInWindow(fit.window, fit.values, i)
        /\ (fit.window = 3
              /\ fit.values = <<StrA, StrA, StrB, StrA, StrB, StrB>>)
               => fit.codes = <<1, 2, 1, 1, 1, 2>>

\* The encoder of window 3 and [x,x,y,x,y,y] has been made.
C15_Witness ==
    /\ RollingMade
    /\ fit.window = 3
    /\ fit.values = <<StrA, StrA, StrB, StrA, StrB, StrB>>
    /\ fit.codes = <<1, 2, 1, 1, 1, 2>>

\* C16: NewRollingFrequency with window <= 0, on any sequence of values,
\* reports an invalid-argument condition and does not panic.
C16_WindowNotPositiveIsReported ==
    (RollingMade /\ fit.window <= 0) =>
        /\ ~fit.last.ret.panic
        /\ fit.last.ret.err # "nil"

\* NewJamesSteinClassification(fit.values, fit.target) has just been called.
ClassificationMade == fit.last.fn = "NewJamesSteinClassification"

\* The number of observations i of the batch with P(i).
CountOf(values, P(_)) == Cardinality({i \in 1..Len(values) : P(i)})

\* The shrinkage weight of the pair of observation i, classCount being the
\* number of observations of the class in the whole batch.
WeightOf(values, target, i) ==
    ShrinkageB(CountOf(values, LAMBDA j : values[j] = values[i]
                                          /\ target[j] = target[i]),
               CountOf(values, LAMBDA j : values[j] = values[i]),
               CountOf(values, LAMBDA j : target[j] = target[i]),
               Len(target))

\* x is a defined number in [0, 1].
InUnitInterval(x) == x.den > 0 /\ x.num >= 0 /\ x.num <= x.den

\* C17: for every pair of sequences of equal length, the non-empty ones
\* included, NewJamesSteinClassification returns a nil error without a
\* panic, and Codes() is as long as the input, element i being the
\* shrinkage weight B of the pair (values[i], target[i]) with classCount the
\* number of observations of the class in the whole batch.
C17_ClassificationCodes ==
    (ClassificationMade /\ Len(fit.values) = Len(fit.target)) =>
        /\ ~fit.last.ret.panic
        /\ fit.last.ret.err = "nil"
        /\ Len(fit.codes) = Len(fit.values)
        /\ \A i \in 1..Len(fit.values) :
              LET b == WeightOf(fit.values, fit.target, i)
              IN  IF b.den = 0 THEN fit.codes[i] = b
                  ELSE fit.codes[i].den # 0 /\ FracEq(fit.codes[i], b)

\* C18: for every batch with groupCount > 0, classCount > 0 and total > 0
\* the weight B that NewJamesSteinClassification computes for each observed
\* pair is a defined number in [0, 1]; the denominator is never zero.
C18_ShrinkageInUnitInterval ==
    (ClassificationMade /\ Len(fit.values) = Len(fit.target)
        /\ Len(fit.target) > 0) =>
        /\ ~fit.last.ret.panic
        /\ Len(fit.codes) = Len(fit.values)
        /\ \A i \in 1..Len(fit.codes) : InUnitInterval(fit.codes[i])

\* C19: NewJamesSteinRegression and NewJamesSteinClassification return
\* ErrTargetLength exactly when len(values) != len(target), and the encoder
\* returned with it holds no codes: every Get says not found (regression)
\* or ErrBounds (classification).
C19_TargetLengthMismatch ==
    fit.last.fn \in {"NewJamesSteinRegression", "NewJamesSteinClassification"}
    =>  /\ (~fit.last.ret.panic /\ fit.last.ret.err = "ErrTargetLength")
               <=> (Len(fit.values) # Len(fit.target))
        /\ Len(fit.values) # Len(fit.target) =>
              /\ fit.made
              /\ fit.type = "JamesSteinRegression" =>
                    \A s \in BatchValues : ~RegressionGet(fit.encoder, s)[2]
              /\ fit.type = "JamesSteinClassification" =>
                    \A index \in Indexes :
                        Get(fit.codes, index) = Returned(0, "ErrBounds")

\* NewJamesSteinClassification has been given two values and one target.
C19_Witness ==
    /\ ClassificationMade
    /\ Len(fit.values) = 2
    /\ Len(fit.target) = 1
    /\ fit.last.ret.err = "ErrTargetLength"

\* C20: RollingFrequency.Get(index) and JamesSteinClassification.Get(index)
\* return ErrBounds exactly when index is outside [0, length) of the fitted
\* codes (a negative index and the empty sequence included), otherwise the
\* code at index with a nil error; the call leaves the encoder as it was.
C20_GetBounds ==
    [][(/\ fit'.last.fn = "Get"
        /\ fit' # fit
        /\ fit.type \in {"RollingFrequency", "JamesSteinClassification"})
       => /\ ~fit'.last.ret.panic
          /\ (fit'.last.ret.err = "ErrBounds")
                 <=> (fit'.last.arg < 0 \/ fit'.last.arg >= Len(fit.codes))
          /\ fit'.last.ret.err # "ErrBounds" =>
                /\ fit'.last.ret.err = "nil"
                /\ fit'.last.ret.v = fit.codes[fit'.last.arg + 1]
          /\ fit'.codes = fit.codes
          /\ fit'.window = fit.window
          /\ fit'.type = fit.type]_vars

\* Get has returned the last code of a RollingFrequency of three values.
C20_Witness ==
    /\ fit.type = "RollingFrequency"
    /\ fit.last.fn = "Get"
    /\ Len(fit.codes) = 3
    /\ fit.last.arg = 2
    /\ fit.last.ret = Returned(fit.codes[3], "nil")

(***************************************************************************)
(* Properties of the Ordinal with ContainsCode and imports                 *)
(***************************************************************************)
\* C21: ContainsCode(code) returns true exactly when code lies in
\* [0, Length()): whenever a call is about to return, its result is true if
\* and only if 0 <= code and code < the length of the list it tested.
C21_ContainsCodeIffInRange ==
    \A p \in Goroutines :
        Returning(p, "ContainsCode") =>
            (g[p].val <=> (0 <= g[p].arg /\ g[p].arg < g[p].before))

\* Goroutine q is inside Encode, Decode, Contains, Length, List or
\* ContainsCode, between taking the lock and releasing it.
InsideCall(q) ==
    /\ g[q].fn \in {"Encode", "Decode", "Contains", "Length", "List",
                    "ContainsCode"}
    /\ g[q].pc \in {"body", "append", "assign", "ret"}

\* Goroutine p is inside an import, at one of its writes to the store.
Importing(p) ==
    /\ g[p].fn \in {"UnmarshalJSON", "UnmarshalCSV", "GobDecode"}
    /\ g[p].pc \in {"set_encoder", "set_decoder", "line"}

\* Every code the map holds is an index of the list.
CodesAreIndexes ==
    \A key \in DOMAIN encoder : encoder[key] < Len(decoder)

\* C22: an import excludes the calls on the same instance: while a
\* goroutine is at the writes of UnmarshalJSON, UnmarshalCSV or GobDecode no
\* other goroutine is inside Encode, Decode, Contains, Length, List or
\* ContainsCode, and a goroutine inside one of these calls never sees the
\* map hold a code that is not an index of the list.
C22_ImportsExcludeCalls ==
    /\ \A p \in Goroutines : \A q \in Goroutines \ {p} :
          Importing(p) => ~InsideCall(q)
    /\ \A q \in Goroutines : InsideCall(q) => CodesAreIndexes

(***************************************************************************)
(* Properties of the JSON export and import                                *)
(***************************************************************************)
\* C23: after a successful B.UnmarshalJSON(A.MarshalJSON()) on a fresh B,
\* B holds A's vocabulary, the same list and the same map, for the OneHot
\* and for the map-based Ordinal; and the map-based Ordinal's UnmarshalJSON
\* returns an error for every map with a code outside [0, length).
C23_UnmarshalJSONRestores ==
    rt.phase = "imported" =>
        /\ rt.kind \in {"OneHot", "Ordinal"} /\ rt.err = "nil" =>
              rt.b.decoder = rt.a.decoder /\ rt.b.encoder = rt.a.encoder
        /\ rt.kind \in {"Ordinal", "raw"} /\ OutsideBounds(rt.sent) =>
              rt.err # "nil"

====
